---- MODULE Spec2Model ----
(***************************************************************************)
(* Scouting-App-Backend: the scouting-data validation lifecycle and the    *)
(* TBA reconciliation run of app/services/scout.py, over the tables of     *)
(* app/models.                                                             *)
(*                                                                         *)
(* A JSON object is a function over the keys it has; a key whose value is  *)
(* JSON null is left out of the domain, because every read in the parser   *)
(* is `get(key) or 0`, an isinstance test or a comparison with a keyword,  *)
(* for which null and absent behave alike.  Likewise a breakdown that is   *)
(* None is the empty object: the parser reads it as `(breakdown or {})`.   *)
(***************************************************************************)
EXTENDS Integers, Sequences, FiniteSets, TLC

(* ------------------------------------------------------------------ *)
(* Bounds of the model                                                 *)
(* ------------------------------------------------------------------ *)
MaxRuns == 2

\* the largest count a breakdown given to the parser reports for a row
MaxCount == 2

\* the longest list of endgame signals given to the classification
MaxSignals == 3

MaxReviews == 2

(* ------------------------------------------------------------------ *)
(* Enumerations and lookup tables of the program                       *)
(* ------------------------------------------------------------------ *)
PENDING == "PENDING"

NEEDS_REVIEW == "NEEDS REVIEW"

VALID == "VALID"

ValidationStatus == {PENDING, NEEDS_REVIEW, VALID}

TBAEndgame2025 == {"NONE", "PARK", "SHALLOW", "DEEP"}

Endgame2025 == {"NONE", "PARK", "SHALLOW", "DEEP"}

RED == "RED"

BLUE == "BLUE"

MATCH_DATA_MODELS_BY_YEAR == {2025, 2026}

\* faulty variant: the 2026 season is also registered
TBA_MATCH_DATA_MODELS_BY_YEAR_With2026 == {2025, 2026}

TBA_MATCH_DATA_MODELS_BY_YEAR == {2025}

TBA_BREAKDOWN_PARSERS_BY_YEAR == {2025}

COMBINED_MATCH_DATA_AGGREGATORS_BY_YEAR == {2025}

\* the seasons whose submission table has the after_insert hook registered
HOOKED_MATCH_DATA_YEARS == {2026}

EmptyDict == [k \in {} |-> 0]

Get(d, k, default) == IF k \in DOMAIN d THEN d[k] ELSE default

Max(a, b) == IF a >= b THEN a ELSE b

\* str.lower() on the endgame strings the external source sends
Lower(s) ==
  CASE s \in {"DeepCage", "DEEPCAGE", "deepcage"} -> "deepcage"
    [] s \in {"ShallowCage", "SHALLOWCAGE", "shallowcage"} -> "shallowcage"
    [] s \in {"Parked", "PARKED", "parked"} -> "parked"
    [] s \in {"None", "none"} -> "none"
    [] OTHER -> s

(* ------------------------------------------------------------------ *)
(* Breakdown parser                                                    *)
(* ------------------------------------------------------------------ *)
\* faulty variant: a row object without the key counts as one
ExtractNestedRowCount_CountsRow(reef, row, key) ==
  IF row \in DOMAIN reef THEN Get(reef[row], key, 1) ELSE 0

\* _extract_nested_row_count(reef_data.get(row), key)
ExtractNestedRowCount(reef, row, key) ==
  IF row \in DOMAIN reef /\ key \in DOMAIN reef[row] THEN reef[row][key] ELSE 0

\* Python `a or b` on integers: a unless it is 0
OrInt(a, b) == IF a # 0 THEN a ELSE b

\* _extract_reef_counts((breakdown or {}).get(reefKey))
ExtractReefCounts(breakdown, reefKey) ==
  IF reefKey \notin DOMAIN breakdown
  THEN [top |-> 0, mid |-> 0, bot |-> 0, trough |-> 0]
  ELSE LET reef == breakdown[reefKey]
           direct_top == Get(reef, "tba_topRowCount", 0)
           direct_mid == Get(reef, "tba_midRowCount", 0)
           direct_bot == Get(reef, "tba_botRowCount", 0)
           top_row == ExtractNestedRowCount(reef, "topRow", "tba_rowCount")
           mid_row == ExtractNestedRowCount(reef, "midRow", "tba_rowCount")
           bot_row == ExtractNestedRowCount(reef, "botRow", "tba_rowCount")
       IN [top |-> OrInt(direct_top, top_row),
           mid |-> OrInt(direct_mid, mid_row),
           bot |-> OrInt(direct_bot, bot_row),
           trough |-> Get(reef, "trough", 0)]

\* the value standing for None in a list of signals
NullSignal == "<null>"

\* isinstance(status, str)
IsStr(status) == status # NullSignal

\* faulty variant: the first recognized signal of the list decides
MapEndgameStatus2025_FirstSignal(statuses) ==
  LET strings == SelectSeq(statuses, IsStr)
      normalized == [i \in 1..Len(strings) |-> Lower(strings[i])]
      known == {i \in 1..Len(normalized) :
                  normalized[i] \in {"deepcage", "shallowcage", "parked"}}
      first == CHOOSE i \in known : \A j \in known : i <= j
  IN IF known = {} THEN "NONE"
     ELSE IF normalized[first] = "deepcage" THEN "DEEP"
     ELSE IF normalized[first] = "shallowcage" THEN "SHALLOW"
     ELSE "PARK"

\* _map_endgame_status_2025(statuses): statuses is the list of signals; the
\* keywords are tried in the order of the priority tuple
MapEndgameStatus2025(statuses) ==
  LET strings == SelectSeq(statuses, IsStr)
      normalized == [i \in 1..Len(strings) |-> Lower(strings[i])]
      any(keyword) == \E i \in 1..Len(normalized) : keyword = normalized[i]
  IN IF any("deepcage") THEN "DEEP"
     ELSE IF any("shallowcage") THEN "SHALLOW"
     ELSE IF any("parked") THEN "PARK"
     ELSE "NONE"

StatusKey(index) == <<"endGameRobot1", "endGameRobot2", "endGameRobot3">>[index]

BotKey(index) == <<"bot1endgame", "bot2endgame", "bot3endgame">>[index]

\* faulty variant: the difference is not floored at zero
TeleopDelta_Unclamped(tele, auto) == tele - auto

\* lines 154-157: max(tele - auto, 0)
TeleopDelta(tele, auto) == Max(tele - auto, 0)

\* _parse_2025_breakdown(breakdown, teams)
Parse2025Breakdown(breakdown, teams) ==
  LET auto == ExtractReefCounts(breakdown, "autoReef")
      tele == ExtractReefCounts(breakdown, "teleopReef")
      endgame_values ==
        [k \in {BotKey(i) : i \in 1..Len(teams)} |->
           LET i == CHOOSE j \in 1..Len(teams) : BotKey(j) = k
           IN MapEndgameStatus2025(
                <<Get(breakdown, StatusKey(i), NullSignal)>>)]
  IN [al4c |-> auto.top, al3c |-> auto.mid, al2c |-> auto.bot,
      al1c |-> auto.trough,
      tl4c |-> TeleopDelta(tele.top, auto.top),
      tl3c |-> TeleopDelta(tele.mid, auto.mid),
      tl2c |-> TeleopDelta(tele.bot, auto.bot),
      tl1c |-> TeleopDelta(tele.trough, auto.trough),
      net |-> Get(breakdown, "netAlgaeCount", 0),
      processor |-> Get(breakdown, "wallAlgaeCount", 0)] @@ endgame_values

(* ------------------------------------------------------------------ *)
(* Combiner                                                            *)
(* ------------------------------------------------------------------ *)
\* _map_match_endgame_to_tba(status) for the str-valued Endgame2025 enum
MapMatchEndgameToTba(status) ==
  IF status \in TBAEndgame2025 THEN status ELSE "NONE"

RECURSIVE SumField(_, _)
SumField(records, f) ==
  IF records = <<>> THEN 0
  ELSE Head(records)[f] + SumField(Tail(records), f)

\* records_by_team.get(team): the last record of the sequence with that team
LastIndexOfTeam(records, team) ==
  LET idx == {i \in 1..Len(records) : records[i].team_number = team}
  IN IF idx = {} THEN 0 ELSE CHOOSE i \in idx : \A j \in idx : j <= i

NoCall == [fn |-> "none"]

\* faulty variant: the record in the slot's position is taken
RecordOfSlot_ByPosition(records, teams, i) == records[i]

\* records_by_team.get(team) for the team of slot i (lines 239-241)
RecordOfSlot(records, teams, i) ==
  records[LastIndexOfTeam(records, teams[i])]

\* the totals dictionary a call starts from
FreshTotals ==
  [al4c |-> 0, al3c |-> 0, al2c |-> 0, al1c |-> 0,
   tl4c |-> 0, tl3c |-> 0, tl2c |-> 0, tl1c |-> 0,
   net |-> 0, processor |-> 0,
   bot1endgame |-> "NONE", bot2endgame |-> "NONE", bot3endgame |-> "NONE"]

\* faulty variant: the totals of the previous call are carried over
InitialTotals_Carried(previous) ==
  IF "result" \in DOMAIN previous /\ previous.result.ok
  THEN previous.result.data ELSE FreshTotals

\* lines 202-216: totals is built anew in every call, whatever came before
InitialTotals(previous) == FreshTotals

\* lines 218-247 from the given totals; ok = FALSE is the None result
Combine2025From(totals, records, teams) ==
  IF \E i \in 1..Len(teams) : LastIndexOfTeam(records, teams[i]) = 0
  THEN [ok |-> FALSE]
  ELSE [ok |-> TRUE,
        data |->
          [k \in {BotKey(i) : i \in 1..Len(teams)} |->
                LET i == CHOOSE j \in 1..Len(teams) : BotKey(j) = k
                IN MapMatchEndgameToTba(RecordOfSlot(records, teams, i).endgame)]
          @@
          [al4c |-> totals.al4c + SumField(records, "al4c"),
           al3c |-> totals.al3c + SumField(records, "al3c"),
           al2c |-> totals.al2c + SumField(records, "al2c"),
           al1c |-> totals.al1c + SumField(records, "al1c"),
           tl4c |-> totals.tl4c + SumField(records, "tl4c"),
           tl3c |-> totals.tl3c + SumField(records, "tl3c"),
           tl2c |-> totals.tl2c + SumField(records, "tl2c"),
           tl1c |-> totals.tl1c + SumField(records, "tl1c"),
           net |-> totals.net + SumField(records, "aNet")
                   + SumField(records, "tNet"),
           processor |-> totals.processor + SumField(records, "aProcessor")
                         + SumField(records, "tProcessor")]
          @@ totals]

\* _combine_2025_match_data(records, teams)
Combine2025MatchData(records, teams) ==
  Combine2025From(InitialTotals(NoCall), records, teams)

(* ------------------------------------------------------------------ *)
(* Comparator                                                          *)
(* ------------------------------------------------------------------ *)
\* faulty variant: one agreeing field is enough
TbaMatchesCombinedData_AnyField(tba_data, combined_data) ==
  \E field \in DOMAIN tba_data :
     /\ field \in DOMAIN combined_data
     /\ combined_data[field] = tba_data[field]

\* _tba_matches_combined_data(tba_data, combined_data)
TbaMatchesCombinedData(tba_data, combined_data) ==
  \A field \in DOMAIN tba_data :
     /\ field \in DOMAIN combined_data
     /\ combined_data[field] = tba_data[field]

(* ------------------------------------------------------------------ *)
(* Identifiers drawn for the model                                     *)
(* ------------------------------------------------------------------ *)
Orgs == {"O1", "O2"}

Events == {"E25", "E26"}

NoEvent == "none"

EventYear(e) == IF e = "E25" THEN 2025 ELSE 2026

\* Season rows: id 1 is 2025 REEFSCAPE, id 2 is 2026 REBUILT
SeasonYear(s) == IF s = 1 THEN 2025 ELSE 2026

SeasonOfYear(y) == IF y = 2025 THEN 1 ELSE 2

(* ------------------------------------------------------------------ *)
(* State                                                               *)
(* ------------------------------------------------------------------ *)
VARIABLES
  apiKey,          \* os.getenv("TBA_API_KEY"): "unset", "" or a key
  activeEvent,     \* organization -> event key of its active OrganizationEvent
  schedule,        \* table matchschedule
  validations,     \* table datavalidation (committed)
  matchdata2025,   \* table matchdata2025 (committed)
  matchdata2026,   \* table matchdata2026 (committed)
  tba,             \* table of external alliance results (committed)
  pc,              \* "idle", or "fetch" while a reconciliation run is in its loop
  run,             \* locals and session of the reconciliation run in progress
  pre,             \* committed tables when the last operation started
  last,            \* outcome of the last operation
  runs,            \* reconciliation runs started so far
  reviews,         \* requests of scouts and reviewers so far
  clock,           \* datetime.now(): the value the next default timestamp takes
  req,             \* the payload of the last submission, edit or correction
  call,            \* the last application of a pure function: input and output
  organizationEvents, \* table organizationevent
  userOrganizations   \* table userorganization

\* what the operations on submissions and validation records only read
config == <<apiKey, activeEvent, schedule, organizationEvents,
            userOrganizations>>

tables == <<validations, matchdata2025, matchdata2026, tba>>

vars == <<apiKey, activeEvent, schedule, validations, matchdata2025,
          matchdata2026, tba, pc, run, pre, last, runs, reviews, clock,
          req, call, organizationEvents, userOrganizations>>

\* primary key of DataValidation: team_number is not part of it
ValKey(v) ==
  <<v.event_key, v.match_number, v.match_level, v.user_id, v.organization_id>>

\* primary key of MatchData: organization_id is not part of it
MatchKey(m) ==
  <<m.team_number, m.event_key, m.match_number, m.match_level, m.user_id>>

\* the identity tuple shared by a submission and its validation record
Identity(r) ==
  <<r.event_key, r.match_number, r.match_level, r.team_number, r.user_id,
    r.organization_id>>

\* key of an external alliance result, as the run selects it
TbaKey(t) == <<t.event_key, t.match_number, t.match_level, t.alliance>>

NoTeam == "unset"

\* the primary key the TBAMatchData2025 table declares: team_number, which
\* the run never sets, and no alliance
TBAMatchData2025PrimaryKey(t) ==
  <<Get(t, "team_number", NoTeam), t.event_key, t.match_number, t.match_level>>

DataValidation(event, number, level, user, team, org, status, notes) ==
  [event_key |-> event, match_number |-> number, match_level |-> level,
   user_id |-> user, team_number |-> team, organization_id |-> org,
   validation_status |-> status, notes |-> notes]

\* the season-specific columns of MatchData2025, with their defaults
MatchData2025Defaults ==
  [al4c |-> 0, al3c |-> 0, al2c |-> 0, al1c |-> 0,
   tl4c |-> 0, tl3c |-> 0, tl2c |-> 0, tl1c |-> 0,
   aNet |-> 0, tNet |-> 0, aProcessor |-> 0, tProcessor |-> 0,
   endgame |-> "NONE"]

MatchData(season, event, number, level, team, user, org, notes) ==
  [season |-> season, team_number |-> team, event_key |-> event,
   match_number |-> number, match_level |-> level, user_id |-> user,
   organization_id |-> org, notes |-> notes]

\* a MatchData2025 row: the base columns and the season-specific ones
MatchData2025(base, fields) == base @@ fields

Snapshot == [validations |-> validations, tba |-> tba,
             matchdata2025 |-> matchdata2025, matchdata2026 |-> matchdata2026]

ZeroCounts ==
  [updated_matches |-> 0, updated_alliances |-> 0, updated_validations |-> 0]

NoRun == [org |-> "none", event |-> NoEvent, todo |-> {}, matches |-> 0,
          sessValidations |-> {}, sessTba |-> {}, updated_alliances |-> 0,
          validations_to_update |-> {}, fetched |-> <<>>]

\* no payload yet
NoRequest == [op |-> "none"]

\* a request of the caller <<u, o>>: the payload's base part and the
\* season-specific values sent with it
Request(op, u, o, match, fields) ==
  [op |-> op, user |-> u, org |-> o, match |-> match, fields |-> fields]

\* no pure function applied yet
\* a row whose timestamp column is t: the payload's own timestamp is popped
\* and the column's default_factory (datetime.now) fills it in
Stamp(row, t) ==
  [f \in DOMAIN row \cup {"timestamp"} |->
     IF f = "timestamp" THEN t ELSE row[f]]

\* a row of OrganizationEvent; active defaults to True, public_data to False
OrganizationEvent(id, org, event, public, active) ==
  [id |-> id, organization_id |-> org, event_key |-> event,
   public_data |-> public, active |-> active]

\* the rows behind a given assignment of active events: one active row for
\* each organization that has an active event
EventRowsOf(active) ==
  {OrganizationEvent(IF o = "O1" THEN 1 ELSE 2, o, active[o], FALSE, TRUE)
     : o \in {x \in DOMAIN active : active[x] # NoEvent}}

\* a row of UserOrganization
UserOrganization(user, org, role) ==
  [user_id |-> user, organization_id |-> org, role |-> role]

UserRole == {"ADMIN", "LEAD", "MEMBER", "GUEST", "PENDING"}

\* the memberships an organization starts with; its member is the admin of
\* another organization
InitialMemberships ==
  {UserOrganization("U1", "O1", "ADMIN"), UserOrganization("U2", "O1", "LEAD"),
   UserOrganization("U3", "O1", "MEMBER"), UserOrganization("U3", "O2", "ADMIN")}

Outcome(op, caller, status, result, fetched) ==
  [op |-> op, caller |-> caller, status |-> status, result |-> result,
   fetched |-> fetched]

(* ------------------------------------------------------------------ *)
(* Reconciliation run: update_tba_match_data_for_pending_alliances     *)
(* ------------------------------------------------------------------ *)
\* a list holding the rows of a result set; the order of rows of one team is
\* the database's, and nothing below depends on it
RECURSIVE SetToSeq(_)
SetToSeq(S) ==
  IF S = {} THEN <<>>
  ELSE LET x == CHOOSE y \in S : TRUE IN <<x>> \o SetToSeq(S \ {x})

\* pending_by_team[(match_level, match_number, team)]
PendingByTeam(pending, level, number, team) ==
  {v \in pending : /\ v.match_level = level
                   /\ v.match_number = number
                   /\ v.team_number = team}

\* the for/else over the three slots of one alliance: <<>> when a slot has no
\* pending record, else the records of slot 1, 2, 3 one after the other
RECURSIVE AllianceValidations(_, _, _)
AllianceValidations(pending, s, teams) ==
  IF teams = <<>> THEN <<>>
  ELSE SetToSeq(PendingByTeam(pending, s.match_level, s.match_number,
                              Head(teams)))
       \o AllianceValidations(pending, s, Tail(teams))

\* faulty variant: one slot with a pending record is enough
AllianceComplete_AnySlot(pending, s, teams) ==
  \E i \in 1..Len(teams) :
     PendingByTeam(pending, s.match_level, s.match_number, teams[i]) # {}

AllianceComplete(pending, s, teams) ==
  \A i \in 1..Len(teams) :
     PendingByTeam(pending, s.match_level, s.match_number, teams[i]) # {}

AlliancePayload(pending, s, alliance, teams) ==
  IF AllianceComplete(pending, s, teams)
  THEN << [alliance |-> alliance, teams |-> teams,
           validations |-> AllianceValidations(pending, s, teams)] >>
  ELSE <<>>

\* [schedule.red1_id, schedule.red2_id, schedule.red3_id]
RedTeams(s) == <<s.red1_id, s.red2_id, s.red3_id>>

\* [schedule.blue1_id, schedule.blue2_id, schedule.blue3_id]
BlueTeams(s) == <<s.blue1_id, s.blue2_id, s.blue3_id>>

\* f"{event_key}_{match_level}{match_number}"
MatchKeyString(event, level, number) == <<event, level, number>>

\* faulty variant: one payload, and so one fetch, per complete alliance
AlliancesToProcess_PerAlliance(event, match_schedules, pending) ==
  {[match_key |-> MatchKeyString(event, s.match_level, s.match_number),
    match_number |-> s.match_number, match_level |-> s.match_level,
    alliances |-> AlliancePayload(pending, s, RED, RedTeams(s))]
     : s \in {x \in match_schedules :
                AllianceComplete(pending, x, RedTeams(x))}}
  \cup
  {[match_key |-> MatchKeyString(event, s.match_level, s.match_number),
    match_number |-> s.match_number, match_level |-> s.match_level,
    alliances |-> AlliancePayload(pending, s, BLUE, BlueTeams(s))]
     : s \in {x \in match_schedules :
                AllianceComplete(pending, x, BlueTeams(x))}}

\* alliances_to_process: one payload per match with a complete alliance
AlliancesToProcess(event, match_schedules, pending) ==
  {[match_key |-> MatchKeyString(event, s.match_level, s.match_number),
    match_number |-> s.match_number, match_level |-> s.match_level,
    alliances |-> AlliancePayload(pending, s, RED, RedTeams(s))
                  \o AlliancePayload(pending, s, BLUE, BlueTeams(s))]
     : s \in {x \in match_schedules :
                AllianceComplete(pending, x, RedTeams(x))
                \/ AllianceComplete(pending, x, BlueTeams(x))}}

\* _parse_tba_breakdown(event_year, breakdown, teams); ok = FALSE is the 404
ParseTbaBreakdown(year, breakdown, teams) ==
  IF year \notin TBA_BREAKDOWN_PARSERS_BY_YEAR THEN [ok |-> FALSE]
  ELSE [ok |-> TRUE, data |-> Parse2025Breakdown(breakdown, teams)]

\* _fetch_match_data_for_validations: the submissions behind the records, in
\* the records' order; <<>> as soon as one record has none
FetchMatchDataForValidations(match_rows, vals) ==
  LET found(v) == {m \in match_rows : Identity(m) = Identity(v)}
  IN IF vals = <<>> \/ \E i \in 1..Len(vals) : found(vals[i]) = {}
     THEN <<>>
     ELSE [i \in 1..Len(vals) |-> CHOOSE m \in found(vals[i]) : TRUE]

\* _calculate_combined_match_data
CalculateCombinedMatchData(year, match_rows, vals, teams) ==
  IF year \notin MATCH_DATA_MODELS_BY_YEAR THEN [ok |-> FALSE]
  ELSE IF year \notin COMBINED_MATCH_DATA_AGGREGATORS_BY_YEAR THEN [ok |-> FALSE]
  ELSE LET match_records == FetchMatchDataForValidations(match_rows, vals)
       IN IF match_records = <<>> \/ Len(match_records) # Len(vals)
          THEN [ok |-> FALSE]
          ELSE Combine2025MatchData(match_records, teams)

\* faulty variant: the distinct-team test is dropped
ShouldAttemptAutoValidate_LengthOnly(vals, teams) ==
  Len(vals) = Len(teams)

\* should_attempt_auto_validate
ShouldAttemptAutoValidate(vals, teams) ==
  /\ Len(vals) = Len(teams)
  /\ Cardinality({vals[i].team_number : i \in 1..Len(vals)}) = Len(teams)

\* faulty variant: a group without a combined result is taken as agreeing
AllianceStatus_ValidWhenUnknown(parsed, combined) ==
  IF combined.ok /\ ~TbaMatchesCombinedData(parsed, combined.data)
  THEN NEEDS_REVIEW ELSE VALID

\* the status one alliance's records get (lines 785-790)
AllianceStatus(parsed, combined) ==
  IF combined.ok /\ TbaMatchesCombinedData(parsed, combined.data)
  THEN VALID ELSE NEEDS_REVIEW

\* select-then-create-or-update of the alliance's external result
UpsertTba(rows, event, number, level, alliance, parsed) ==
  LET key == <<event, number, level, alliance>>
  IN {t \in rows : TbaKey(t) # key}
     \cup {[event_key |-> event, match_number |-> number,
            match_level |-> level, alliance |-> alliance] @@ parsed}

\* faulty variant: only one of the records is updated
SetStatus_OneRecord(rows, keys, status) ==
  LET first == IF keys = {} THEN {} ELSE {CHOOSE k \in keys : TRUE}
  IN {IF ValKey(v) \in first THEN [v EXCEPT !.validation_status = status] ELSE v
        : v \in rows}

SetStatus(rows, keys, status) ==
  {IF ValKey(v) \in keys THEN [v EXCEPT !.validation_status = status] ELSE v
     : v \in rows}

ColorKey(alliance) == IF alliance = RED THEN "red" ELSE "blue"

\* the body of the loop over match_payload["alliances"] for one alliance
ProcessAlliance(st, payload, a, score_breakdown, year, match_rows) ==
  LET parsed == ParseTbaBreakdown(year,
                  Get(score_breakdown, ColorKey(a.alliance), EmptyDict), a.teams)
      combined == IF ShouldAttemptAutoValidate(a.validations, a.teams)
                  THEN CalculateCombinedMatchData(year, match_rows,
                                                  a.validations, a.teams)
                  ELSE [ok |-> FALSE]
      keys == {ValKey(a.validations[i]) : i \in 1..Len(a.validations)}
  IN [st EXCEPT
        !.sessTba = UpsertTba(@, st.event, payload.match_number,
                              payload.match_level, a.alliance, parsed.data),
        !.updated_alliances = @ + 1,
        !.sessValidations = SetStatus(@, keys, AllianceStatus(parsed.data, combined)),
        !.validations_to_update = @ \cup keys]

RECURSIVE ProcessAlliances(_, _, _, _, _, _)
ProcessAlliances(st, payload, alliances, score_breakdown, year, match_rows) ==
  IF alliances = <<>> THEN st
  ELSE ProcessAlliances(
         ProcessAlliance(st, payload, Head(alliances), score_breakdown, year,
                         match_rows),
         payload, Tail(alliances), score_breakdown, year, match_rows)

\* faulty variant: the organization filter is dropped
InRunScope_AnyOrganization(v, event, org) == v.event_key = event

\* the event and organization filters of the pending_statement (664-665)
InRunScope(v, event, org) ==
  /\ v.event_key = event
  /\ v.organization_id = org

\* faulty variant: the status filter is dropped
PendingRecords_AnyStatus(rows, event, org) ==
  {v \in rows : InRunScope(v, event, org)}

\* the pending_statement of lines 663-667
PendingRecords(rows, event, org) ==
  {v \in rows : /\ InRunScope(v, event, org)
                /\ v.validation_status = PENDING}

\* faulty variant: only an unset key is refused
ApiKeyMissing_UnsetOnly(key) == key = "unset"

\* `not api_key` of line 653
ApiKeyMissing(key) == key \in {"unset", ""}

\* faulty variant: the session's changes survive the failure
CloseWithoutCommit_Keeps(committed, session) == session

\* leaving `async with AsyncSession(engine) as session` without a commit:
\* the tables keep their committed rows, the session's changes are dropped
CloseWithoutCommit(committed, session) == committed

MatchRows(year) == IF year = 2025 THEN matchdata2025 ELSE matchdata2026

\* lines 633-712: resolve the caller, check the configuration, read the roster
\* and the pending records, group them
TbaUpdateStart(org) ==
  /\ pc = "idle"
  /\ runs < MaxRuns
  /\ runs' = runs + 1
  /\ pre' = Snapshot
  /\ req' = NoRequest
  /\ UNCHANGED <<config, call, clock, tables, reviews>>
  /\ LET event == activeEvent[org]
         match_schedules == {s \in schedule : s.event_key = event}
         pending_records == PendingRecords(validations, event, org)
         alliances_to_process ==
           AlliancesToProcess(event, match_schedules, pending_records)
         return(code) == /\ pc' = "idle"
                         /\ run' = NoRun
                         /\ last' = Outcome("tbaUpdate", org, code, ZeroCounts,
                                          <<>>)
     IN IF event = NoEvent THEN return(404)
        ELSE IF EventYear(event) \notin TBA_MATCH_DATA_MODELS_BY_YEAR
        THEN return(404)
        ELSE IF ApiKeyMissing(apiKey) THEN return(500)
        ELSE IF match_schedules = {} \/ pending_records = {}
                \/ alliances_to_process = {}
        THEN return(200)
        ELSE /\ pc' = "fetch"
             /\ run' = [org |-> org, event |-> event,
                        todo |-> alliances_to_process,
                        matches |-> Cardinality(alliances_to_process),
                        sessValidations |-> validations, sessTba |-> tba,
                        updated_alliances |-> 0,
                        validations_to_update |-> {}, fetched |-> <<>>]
             /\ last' = Outcome("tbaUpdate", org, 0, ZeroCounts, <<>>)

\* one iteration of the loop over alliances_to_process whose fetch returns 200
TbaUpdateFetchOk(payload, score_breakdown) ==
  /\ pc = "fetch"
  /\ payload \in run.todo
  /\ EventYear(run.event) \in TBA_BREAKDOWN_PARSERS_BY_YEAR
  /\ LET year == EventYear(run.event)
         st == ProcessAlliances(run, payload, payload.alliances,
                                score_breakdown, year, MatchRows(year))
     IN run' = [st EXCEPT !.todo = @ \ {payload},
                          !.fetched = Append(@, [key |-> payload.match_key,
                                                 status |-> 200,
                                                 body |-> score_breakdown])]
  /\ UNCHANGED <<config, call, req, clock, tables, pc, pre, last, runs,
               reviews>>

\* an iteration whose fetch returns a non-200 status: the exception leaves the
\* handler, the session is closed without a commit
TbaUpdateFetchFail(payload, code) ==
  /\ pc = "fetch"
  /\ payload \in run.todo
  /\ pc' = "idle"
  /\ run' = NoRun
  /\ last' = Outcome("tbaUpdate", run.org, code, ZeroCounts,
                     Append(run.fetched, [key |-> payload.match_key,
                                          status |-> code,
                                          body |-> EmptyDict]))
  /\ validations' = CloseWithoutCommit(validations, run.sessValidations)
  /\ tba' = CloseWithoutCommit(tba, run.sessTba)
  /\ UNCHANGED <<config, call, req, clock, matchdata2025, matchdata2026, pre,
               runs, reviews>>

\* faulty variant: the matches are counted as the alliances are
RunCounts_AlliancesAsMatches(r) ==
  [updated_matches |-> r.updated_alliances,
   updated_alliances |-> r.updated_alliances,
   updated_validations |-> Cardinality(r.validations_to_update)]

\* lines 807-811: len(alliances_to_process), updated_alliances and
\* len(validations_to_update)
RunCounts(r) ==
  [updated_matches |-> r.matches,
   updated_alliances |-> r.updated_alliances,
   updated_validations |-> Cardinality(r.validations_to_update)]

\* lines 805-811: the commit after the loop, and the counts returned
TbaUpdateCommit ==
  /\ pc = "fetch"
  /\ run.todo = {}
  /\ validations' = run.sessValidations
  /\ tba' = run.sessTba
  /\ pc' = "idle"
  /\ run' = NoRun
  /\ last' = Outcome("tbaUpdate", run.org, 200, RunCounts(run), run.fetched)
  /\ UNCHANGED <<config, call, req, clock, matchdata2025, matchdata2026, pre,
               runs, reviews>>

(* ------------------------------------------------------------------ *)
(* Inputs: rosters, submissions, external breakdowns                   *)
(* ------------------------------------------------------------------ *)
MatchSchedule(event, number, red, blue) ==
  [event_key |-> event, match_number |-> number, match_level |-> "qm",
   red1_id |-> red[1], red2_id |-> red[2], red3_id |-> red[3],
   blue1_id |-> blue[1], blue2_id |-> blue[2], blue3_id |-> blue[3]]

\* two qualification matches with the same red alliance
RosterA ==
  {MatchSchedule("E25", 1, <<1, 2, 3>>, <<4, 5, 6>>),
   MatchSchedule("E25", 2, <<1, 2, 3>>, <<4, 5, 6>>),
   MatchSchedule("E26", 1, <<1, 2, 3>>, <<4, 5, 6>>)}

\* a roster whose match 2 repeats a team in the slots of each alliance
RosterB ==
  {MatchSchedule("E25", 1, <<1, 2, 3>>, <<4, 5, 6>>),
   MatchSchedule("E25", 2, <<1, 1, 3>>, <<4, 4, 4>>),
   MatchSchedule("E26", 1, <<1, 2, 3>>, <<4, 5, 6>>)}

Rosters == {RosterA, RosterB, {}}

\* the three submissions of tests/test_tba_auto_validation.py, by team
ScenarioFields(team) ==
  CASE team = 1 -> [MatchData2025Defaults EXCEPT
                      !.al4c = 1, !.tl4c = 2, !.aNet = 1, !.tProcessor = 1,
                      !.endgame = "DEEP"]
    [] team = 2 -> [MatchData2025Defaults EXCEPT
                      !.al3c = 1, !.tl3c = 2, !.tNet = 1, !.aProcessor = 1,
                      !.endgame = "PARK"]
    [] team = 3 -> [MatchData2025Defaults EXCEPT
                      !.al2c = 1, !.tl2c = 2, !.tNet = 1, !.tProcessor = 1,
                      !.endgame = "NONE"]
    [] OTHER -> MatchData2025Defaults

\* the same submission with one count off by one
OffFields(team) == [ScenarioFields(team) EXCEPT !.al4c = @ + 1]

\* the red breakdown the test's fetch returns (teleop rows 2/2/2)
TestBreakdown ==
  [autoReef |-> [tba_topRowCount |-> 1, tba_midRowCount |-> 1,
                 tba_botRowCount |-> 1, trough |-> 0],
   teleopReef |-> [tba_topRowCount |-> 2, tba_midRowCount |-> 2,
                   tba_botRowCount |-> 2, trough |-> 0],
   netAlgaeCount |-> 3, wallAlgaeCount |-> 3,
   endGameRobot1 |-> "DeepCage", endGameRobot2 |-> "Parked"]

\* the same with cumulative teleop rows 3/3/3, i.e. 2/2/2 scored in teleop
CumulativeBreakdown ==
  [TestBreakdown EXCEPT
     !.teleopReef = [tba_topRowCount |-> 3, tba_midRowCount |-> 3,
                     tba_botRowCount |-> 3, trough |-> 0]]

\* an alliance whose first two robots both did what team 1 did
DoubledBreakdown ==
  [autoReef |-> [tba_topRowCount |-> 2, tba_botRowCount |-> 1],
   teleopReef |-> [tba_topRowCount |-> 6, tba_botRowCount |-> 3],
   netAlgaeCount |-> 3, wallAlgaeCount |-> 3,
   endGameRobot1 |-> "DeepCage", endGameRobot2 |-> "DeepCage",
   endGameRobot3 |-> "None"]

BreakdownInputs ==
  {TestBreakdown, CumulativeBreakdown, DoubledBreakdown, EmptyDict}

\* score_breakdown documents a 200 response carries
ScoreBreakdowns ==
  {[red |-> r, blue |-> b] : r \in BreakdownInputs, b \in {EmptyDict}}
  \cup {EmptyDict}

FailureCodes == {404}

\* rows the tables may hold when the program starts: who scouted which team
\* in which match, and in which condition the row pair is
SeedPool ==
  << [user |-> "U1", team |-> 1, number |-> 1, event |-> "E25",
      options |-> {"absent", "pending", "off"}],
     [user |-> "U2", team |-> 2, number |-> 1, event |-> "E25",
      options |-> {"absent", "pending", "valid"}],
     [user |-> "U3", team |-> 3, number |-> 1, event |-> "E25",
      options |-> {"absent", "pending", "nosub"}],
     [user |-> "U4", team |-> 1, number |-> 1, event |-> "E25",
      options |-> {"absent", "pending"}],
     [user |-> "U1", team |-> 1, number |-> 2, event |-> "E25",
      options |-> {"absent", "pending"}],
     [user |-> "U2", team |-> 2, number |-> 2, event |-> "E25",
      options |-> {"absent", "pending"}],
     [user |-> "U3", team |-> 3, number |-> 2, event |-> "E25",
      options |-> {"absent", "pending"}],
     [user |-> "U4", team |-> 4, number |-> 2, event |-> "E25",
      options |-> {"absent", "pending", "review"}],
     [user |-> "U1", team |-> 1, number |-> 1, event |-> "E26",
      options |-> {"absent", "pending"}] >>

SeedValidation(c, o) ==
  DataValidation(c.event, c.number, "qm", c.user, c.team, "O1",
                 CASE o = "valid" -> VALID
                   [] o = "review" -> NEEDS_REVIEW
                   [] OTHER -> PENDING,
                 "")

SeedMatchData(c, o) ==
  LET base == MatchData(SeasonOfYear(EventYear(c.event)), c.event, c.number,
                        "qm", c.team, c.user, "O1", "")
  IN Stamp(IF EventYear(c.event) = 2025
           THEN MatchData2025(base, IF o = "off" THEN OffFields(c.team)
                                    ELSE ScenarioFields(c.team))
           ELSE base, 0)

\* the table contents obtained from the first i candidates of the pool
RECURSIVE SeedStates(_)
SeedStates(i) ==
  IF i = 0 THEN {[validations |-> {}, matchdata2025 |-> {}, matchdata2026 |-> {}]}
  ELSE LET c == SeedPool[i]
           add(st, o) ==
             IF o = "absent" THEN st
             ELSE [validations |-> st.validations \cup {SeedValidation(c, o)},
                   matchdata2025 |->
                     IF o # "nosub" /\ EventYear(c.event) = 2025
                     THEN st.matchdata2025 \cup {SeedMatchData(c, o)}
                     ELSE st.matchdata2025,
                   matchdata2026 |->
                     IF o # "nosub" /\ EventYear(c.event) = 2026
                     THEN st.matchdata2026 \cup {SeedMatchData(c, o)}
                     ELSE st.matchdata2026]
       IN {add(st, o) : st \in SeedStates(i - 1), o \in c.options}

InitCommon ==
  /\ tba = {}
  /\ pc = "idle"
  /\ run = NoRun
  /\ pre = Snapshot
  /\ last = Outcome("none", "none", 0, ZeroCounts, <<>>)
  /\ runs = 0
  /\ reviews = 0
  /\ clock = 1
  /\ req = NoRequest
  /\ call = NoCall
  /\ organizationEvents = EventRowsOf(activeEvent)
  /\ userOrganizations = InitialMemberships

\* any configuration and any stored rows of the pool
InitRun ==
  /\ apiKey \in {"unset", "", "test-key"}
  /\ activeEvent \in {[O1 |-> e, O2 |-> "E25"] : e \in Events \cup {NoEvent}}
  /\ schedule \in Rosters
  /\ \E st \in SeedStates(Len(SeedPool)) :
        /\ validations = st.validations
        /\ matchdata2025 = st.matchdata2025
        /\ matchdata2026 = st.matchdata2026
  /\ InitCommon

TbaUpdate ==
  \/ \E org \in Orgs : TbaUpdateStart(org)
  \/ \E payload \in run.todo, sb \in ScoreBreakdowns :
        TbaUpdateFetchOk(payload, sb)
  \/ \E payload \in run.todo, code \in FailureCodes :
        TbaUpdateFetchFail(payload, code)
  \/ TbaUpdateCommit

NextRun == TbaUpdate

SpecRun == InitRun /\ [][NextRun]_vars

\* a stored pair: the validation record and the submission behind it
OrgSeed(user, team, number, event, org) ==
  [validation |-> DataValidation(event, number, "qm", user, team, org,
                                 PENDING, ""),
   submission |->
     Stamp(IF EventYear(event) = 2025
           THEN MatchData2025(MatchData(1, event, number, "qm", team, user,
                                        org, ""), ScenarioFields(team))
           ELSE MatchData(2, event, number, "qm", team, user, org, ""), 0)]

\* groups of pairs two organizations may hold about the same matches
OrgSeedGroups ==
  << {OrgSeed("U1", 1, 1, "E25", "O1"), OrgSeed("U2", 2, 1, "E25", "O1"),
      OrgSeed("U3", 3, 1, "E25", "O1")},
     {OrgSeed("U1", 1, 2, "E25", "O1"), OrgSeed("U3", 3, 2, "E25", "O1"),
      OrgSeed("U4", 4, 2, "E25", "O1")},
     {OrgSeed("U5", 1, 1, "E25", "O2"), OrgSeed("U6", 2, 1, "E25", "O2"),
      OrgSeed("U7", 3, 1, "E25", "O2")},
     {OrgSeed("U1", 1, 1, "E26", "O1")} >>

\* two organizations at the same event, each with or without its groups
InitOrgs ==
  /\ apiKey = "test-key"
  /\ activeEvent \in {[O1 |-> e, O2 |-> "E25"] : e \in Events}
  /\ schedule \in {RosterA, RosterB}
  /\ \E chosen \in SUBSET (1..Len(OrgSeedGroups)) :
        LET pairs == UNION {OrgSeedGroups[i] : i \in chosen}
        IN /\ validations = {x.validation : x \in pairs}
           /\ matchdata2025 =
                {x.submission : x \in {y \in pairs :
                                         y.validation.event_key = "E25"}}
           /\ matchdata2026 =
                {x.submission : x \in {y \in pairs :
                                         y.validation.event_key = "E26"}}
  /\ InitCommon

SpecOrgs == InitOrgs /\ [][NextRun]_vars

(* ------------------------------------------------------------------ *)
(* The breakdown parser called on its own                              *)
(* ------------------------------------------------------------------ *)
\* a JSON object with the key k or without it
Entry(k, values) == {EmptyDict} \cup {[x \in {k} |-> v] : v \in values}

\* the nested shape of a row: an object with or without tba_rowCount
NestedRows == {EmptyDict} \cup {[tba_rowCount |-> n] : n \in 0..MaxCount}

\* reef objects: the top row in either shape, both or none, the middle row
\* in the nested shape, the trough
ReefInputs ==
  {a @@ b @@ c @@ d : a \in Entry("tba_topRowCount", 0..MaxCount),
                      b \in Entry("topRow", NestedRows),
                      c \in Entry("midRow", {[tba_rowCount |-> 1]}),
                      d \in Entry("trough", {0, 1})}

\* breakdowns: each reef present or not, the net count and the endgame
\* signal of the first robot present or not
ParserInputs ==
  {a @@ t @@ n @@ e : a \in Entry("autoReef", ReefInputs),
                      t \in Entry("teleopReef", ReefInputs),
                      n \in Entry("netAlgaeCount", {0, 1}),
                      e \in Entry("endGameRobot1", {"None", "DeepCage"})}

ParserTeams == <<1, 2, 3>>

\* one call of _parse_2025_breakdown(breakdown, teams)
ParseBreakdownCall(breakdown, teams) ==
  /\ call = NoCall
  /\ call' = [fn |-> "_parse_2025_breakdown", breakdown |-> breakdown,
              teams |-> teams, result |-> Parse2025Breakdown(breakdown, teams)]
  /\ UNCHANGED <<config, tables, tba, pc, run, pre, last, runs, reviews,
                 clock, req>>

\* the signals an external source sends, in several spellings, one it
\* never defined, and None
SignalInputs ==
  {"DeepCage", "deepcage", "ShallowCage", "SHALLOWCAGE", "Parked", "None",
   "Climbed", NullSignal}

RECURSIVE SignalLists(_)
SignalLists(n) ==
  IF n = 0 THEN {<<>>}
  ELSE SignalLists(n - 1)
       \cup {Append(l, x) : l \in {m \in SignalLists(n - 1) : Len(m) = n - 1},
                            x \in SignalInputs}

\* one call of _map_endgame_status_2025(statuses)
MapEndgameCall(statuses) ==
  /\ call = NoCall
  /\ call' = [fn |-> "_map_endgame_status_2025", statuses |-> statuses,
              result |-> MapEndgameStatus2025(statuses)]
  /\ UNCHANGED <<config, tables, tba, pc, run, pre, last, runs, reviews,
                 clock, req>>

\* submissions of one match given to the combiner: a team and its fields
CombineRecords ==
  {MatchData2025(MatchData(1, "E25", 1, "qm", team, "U1", "O1", ""), fields)
     : team \in 1..4,
       fields \in {ScenarioFields(1), ScenarioFields(2), OffFields(3)}}

CombineInputs == [1..3 -> CombineRecords]

CombineTeams == {<<1, 2, 3>>, <<3, 1, 2>>, <<1, 1, 3>>}

\* a call of _combine_2025_match_data(records, teams)
CombineCall(records, teams) ==
  /\ call = NoCall
  /\ call' = [fn |-> "_combine_2025_match_data", given |-> records,
              records |-> records, teams |-> teams, calls |-> 1,
              first |-> Combine2025From(InitialTotals(call), records, teams),
              result |-> Combine2025From(InitialTotals(call), records, teams)]
  /\ UNCHANGED <<config, tables, tba, pc, run, pre, last, runs, reviews,
                 clock, req>>

\* the same call once more, on the records as the first call left them
CombineAgain ==
  /\ call.fn = "_combine_2025_match_data"
  /\ call.calls = 1
  /\ call' = [call EXCEPT
                !.calls = 2,
                !.first = call.result,
                !.result = Combine2025From(InitialTotals(call), call.records,
                                           call.teams)]
  /\ UNCHANGED <<config, tables, tba, pc, run, pre, last, runs, reviews,
                 clock, req>>

\* external mappings: some of the parser's fields, each present or not
ExternalMappings ==
  {a @@ n @@ e : a \in Entry("al4c", {0, 1}), n \in Entry("net", {0, 1}),
                 e \in Entry("bot1endgame", {"NONE", "DEEP"})}

\* internal mappings: the same fields, each present or not, with or without
\* a field the external side never has
InternalMappings ==
  {m @@ x : m \in ExternalMappings, x \in Entry("updated_by", {7})}

\* one call of _tba_matches_combined_data(tba_data, combined_data)
CompareCall(tba_data, combined_data) ==
  /\ call = NoCall
  /\ call' = [fn |-> "_tba_matches_combined_data", tba_data |-> tba_data,
              combined_data |-> combined_data,
              result |-> TbaMatchesCombinedData(tba_data, combined_data)]
  /\ UNCHANGED <<config, tables, tba, pc, run, pre, last, runs, reviews,
                 clock, req>>

NextParse ==
  \/ /\ call = NoCall
     /\ \/ \E b \in ParserInputs : ParseBreakdownCall(b, ParserTeams)
        \/ \E l \in SignalLists(MaxSignals) : MapEndgameCall(l)
        \/ \E r \in CombineInputs, t \in CombineTeams : CombineCall(r, t)
        \/ \E t \in ExternalMappings, c \in InternalMappings :
              CompareCall(t, c)
  \/ CombineAgain

\* the parser reads no stored state: empty tables
InitParse ==
  /\ apiKey = "test-key"
  /\ activeEvent = [O1 |-> "E25", O2 |-> "E25"]
  /\ schedule = RosterA
  /\ validations = {}
  /\ matchdata2025 = {}
  /\ matchdata2026 = {}
  /\ InitCommon

SpecParse == InitParse /\ [][NextParse]_vars

(* ------------------------------------------------------------------ *)
(* Submission and review                                               *)
(* ------------------------------------------------------------------ *)
\* the memberships a caller can be logged into: <<user, organization>>
Memberships ==
  {<<"U1", "O1">>, <<"U2", "O1">>, <<"U3", "O1">>, <<"U4", "O1">>,
   <<"U4", "O2">>}

\* faulty variant: the record is inserted without the existence check
CreateDataValidation_Unchecked(rows, target) ==
  rows \cup {DataValidation(target.event_key, target.match_number,
                            target.match_level, target.user_id,
                            target.team_number, target.organization_id,
                            PENDING, "")}

\* the after_insert hook _create_data_validation on the validation table
CreateDataValidation(rows, target) ==
  IF \E v \in rows : Identity(v) = Identity(target) THEN rows
  ELSE rows \cup {DataValidation(target.event_key, target.match_number,
                                 target.match_level, target.user_id,
                                 target.team_number, target.organization_id,
                                 PENDING, "")}

\* the insert of the hook violates the primary key of datavalidation
HookConflict(rows, target) ==
  /\ ~ \E v \in rows : Identity(v) = Identity(target)
  /\ \E v \in rows : ValKey(v) = ValKey(target)

\* faulty variant: a stored submission is never noticed
SubmitConflict_Never(table, typed) == FALSE

\* lines 920-943: the select finds a submission with the payload's identity,
\* or the insert violates the primary key of the submission table
SubmitConflict(table, typed) ==
  \/ \E m \in table : Identity(m) = Identity(typed)
  \/ \E m \in table : MatchKey(m) = MatchKey(typed)

\* the payload as a typed row of its season (MatchData2025(match),
\* MatchData2026(match)), the caller's user id put in
TypedMatch(match, fields, u) ==
  IF SeasonYear(match.season) = 2025
  THEN MatchData2025([match EXCEPT !.user_id = u], fields)
  ELSE [match EXCEPT !.user_id = u]

\* submit_scouted_match / _submit_match_for_year for the caller <<u, o>>;
\* match is the payload, fields its season-specific part
SubmitScoutedMatch(u, o, match, fields) ==
  /\ pc = "idle"
  /\ <<u, o>> \in Memberships
  /\ match.season \in {1, 2}
  /\ reviews < MaxReviews
  /\ reviews' = reviews + 1
  /\ pre' = Snapshot
  /\ UNCHANGED <<config, call, tba, pc, run, runs>>
  /\ LET expected_year == SeasonYear(match.season)
         typed == Stamp(TypedMatch(match, fields, u), clock)
         table == MatchRows(expected_year)
         reject(code) == /\ last' = Outcome("submit", o, code, ZeroCounts, <<>>)
                         /\ UNCHANGED <<tables, clock>>
     IN /\ req' = Request("submit", u, o, match, fields)
        /\ IF match.organization_id # o THEN reject(403)
           ELSE IF EventYear(match.event_key) # expected_year THEN reject(400)
           ELSE IF match.user_id # u THEN reject(403)
           ELSE IF SubmitConflict(table, typed) THEN reject(409)
           ELSE IF expected_year \in HOOKED_MATCH_DATA_YEARS
                   /\ HookConflict(validations, typed)
           THEN reject(409)
           ELSE /\ clock' = clock + 1
                /\ matchdata2025' = IF expected_year = 2025
                                    THEN matchdata2025 \cup {typed}
                                    ELSE matchdata2025
                /\ matchdata2026' = IF expected_year = 2026
                                    THEN matchdata2026 \cup {typed}
                                    ELSE matchdata2026
                /\ validations' = IF expected_year \in HOOKED_MATCH_DATA_YEARS
                                  THEN CreateDataValidation(validations, typed)
                                  ELSE validations
                /\ last' = Outcome("submit", o, 200, ZeroCounts, <<>>)

NoNotes == "<none>"

\* the record one entry of the batch selects
BatchTarget(rows, event, org, update) ==
  {v \in rows : /\ v.event_key = event
                /\ v.organization_id = org
                /\ v.match_number = update.matchNumber
                /\ v.match_level = update.matchLevel
                /\ v.team_number = update.teamNumber
                /\ v.user_id = update.userId}

\* record.validation_status = update.validationStatus, and the notes when
\* the entry has them
ApplyUpdate(rows, event, org, update) ==
  {IF v \in BatchTarget(rows, event, org, update)
   THEN [v EXCEPT !.validation_status = update.validationStatus,
                  !.notes = IF update.notes = NoNotes THEN @ ELSE update.notes]
   ELSE v : v \in rows}

\* the loop of batch_update_data_validations over the session's rows;
\* ok = FALSE is the 404 raised at the first entry without a record
RECURSIVE ApplyUpdates(_, _, _, _)
ApplyUpdates(rows, event, org, updates) ==
  IF updates = <<>> THEN [ok |-> TRUE, rows |-> rows]
  ELSE IF BatchTarget(rows, event, org, Head(updates)) = {}
  THEN [ok |-> FALSE, rows |-> rows]
  ELSE ApplyUpdates(ApplyUpdate(rows, event, org, Head(updates)), event, org,
                    Tail(updates))

\* batch_update_data_validations for a caller logged into organization o
BatchUpdateDataValidations(o, updates) ==
  /\ pc = "idle"
  /\ reviews < MaxReviews
  /\ reviews' = reviews + 1
  /\ pre' = Snapshot
  /\ req' = [op |-> "batchUpdate", org |-> o, updates |-> updates]
  /\ UNCHANGED <<config, call, clock, matchdata2025, matchdata2026, tba, pc,
               run, runs>>
  /\ LET event == activeEvent[o]
         done == ApplyUpdates(validations, event, o, updates)
     IN IF updates = <<>>
        THEN /\ last' = Outcome("batchUpdate", o, 200, ZeroCounts, <<>>)
             /\ UNCHANGED validations
        ELSE IF event = NoEvent \/ ~done.ok
        THEN /\ last' = Outcome("batchUpdate", o, 404, ZeroCounts, <<>>)
             /\ validations' = CloseWithoutCommit(validations, done.rows)
        ELSE /\ last' = Outcome("batchUpdate", o, 200, ZeroCounts, <<>>)
             /\ validations' = done.rows

\* lines 1064-1065 of _edit_match_for_year: every field of the model is set
\* on the stored row from the typed payload, the notes it carries and the
\* timestamp its default filled in included
EditMatchForYear(table, typed) ==
  {IF Identity(m) = Identity(typed) THEN typed ELSE m : m \in table}

\* edit_2025_match / edit_2026_match (_edit_match_for_year) for the caller
\* <<u, o>>; match is the payload, fields its season-specific part
EditScoutedMatch(u, o, match, fields) ==
  /\ pc = "idle"
  /\ <<u, o>> \in Memberships
  /\ match.season \in {1, 2}
  /\ reviews < MaxReviews
  /\ reviews' = reviews + 1
  /\ pre' = Snapshot
  /\ UNCHANGED <<config, call, validations, tba, pc, run, runs>>
  /\ LET expected_year == SeasonYear(match.season)
         typed == Stamp(TypedMatch(match, fields, u), clock)
         table == MatchRows(expected_year)
         reject(code) == /\ last' = Outcome("edit", o, code, ZeroCounts, <<>>)
                         /\ UNCHANGED <<matchdata2025, matchdata2026, clock>>
     IN /\ req' = Request("edit", u, o, match, fields)
        /\ IF match.organization_id # o THEN reject(403)
           ELSE IF EventYear(match.event_key) # expected_year THEN reject(400)
           ELSE IF match.user_id # u THEN reject(403)
           ELSE IF ~ \E m \in table : Identity(m) = Identity(typed)
           THEN reject(404)
           ELSE /\ clock' = clock + 1
                /\ matchdata2025' = IF expected_year = 2025
                                    THEN EditMatchForYear(matchdata2025, typed)
                                    ELSE matchdata2025
                /\ matchdata2026' = IF expected_year = 2026
                                    THEN EditMatchForYear(matchdata2026, typed)
                                    ELSE matchdata2026
                /\ last' = Outcome("edit", o, 200, ZeroCounts, <<>>)

\* faulty variant: the record is sent to review instead
MarkValidation_ToReview(v, notes) ==
  [v EXCEPT !.validation_status = NEEDS_REVIEW, !.notes = notes]

\* lines 106-108 of the route: the record becomes VALID with the payload's notes
MarkValidation(v, notes) ==
  [v EXCEPT !.validation_status = VALID, !.notes = notes]

\* the season-specific values of a request body read as `match: MatchData`:
\* the base model has no such fields, match.model_dump() carries none, and
\* match_model(**dummy_payload) takes the columns' defaults
BodyAsMatchData(fields) == MatchData2025Defaults

\* PUT /scout/dataValidation (mark_match_data_valid) for the caller <<u, o>>;
\* match is the body's base part, fields the season-specific values sent
MarkMatchDataValid(u, o, match, fields) ==
  /\ pc = "idle"
  /\ <<u, o>> \in Memberships
  /\ match.season = 1
  /\ reviews < MaxReviews
  /\ reviews' = reviews + 1
  /\ pre' = Snapshot
  /\ UNCHANGED <<config, call, matchdata2026, tba, pc, run, runs>>
  /\ LET stored == {m \in matchdata2025 : Identity(m) = Identity(match)}
         stored_match == CHOOSE m \in stored : TRUE
         typed == Stamp(MatchData2025([match EXCEPT
                                          !.notes = stored_match.notes],
                                      BodyAsMatchData(fields)), clock)
         target == {v \in validations : Identity(v) = Identity(match)}
         reject(code) == /\ last' = Outcome("markValid", o, code, ZeroCounts,
                                            <<>>)
                         /\ UNCHANGED <<validations, matchdata2025, clock>>
     IN /\ req' = Request("markValid", u, o, match, fields)
        /\ IF stored = {} THEN reject(404)
           ELSE IF match.organization_id # o THEN reject(403)
           ELSE IF EventYear(match.event_key) # 2025 THEN reject(400)
           ELSE IF match.user_id # u THEN reject(403)
           ELSE /\ clock' = clock + 1
                /\ matchdata2025' = EditMatchForYear(matchdata2025, typed)
                /\ IF target = {}
                   THEN /\ last' = Outcome("markValid", o, 404, ZeroCounts, <<>>)
                        /\ UNCHANGED validations
                   ELSE /\ last' = Outcome("markValid", o, 200, ZeroCounts, <<>>)
                        /\ validations' =
                             {IF v \in target THEN MarkValidation(v, match.notes)
                              ELSE v : v \in validations}

\* payloads a scout or reviewer sends
Payloads ==
  {MatchData(SeasonOfYear(EventYear(c[1])), c[1], 1, "qm", c[2], c[3], "O1",
             "checked")
     : c \in {<<"E25", 1, "U1">>, <<"E25", 1, "U4">>,
              <<"E26", 1, "U1">>, <<"E26", 2, "U1">>}}

\* entries of a reviewer's batch
UpdateEntries ==
  {[matchNumber |-> 1, matchLevel |-> "qm", teamNumber |-> c[1],
    userId |-> c[2], validationStatus |-> c[3], notes |-> c[4]]
     : c \in {<<1, "U1", VALID, NoNotes>>,
              <<1, "U1", PENDING, "checked">>,
              <<2, "U2", NEEDS_REVIEW, "checked">>,
              <<4, "U4", VALID, NoNotes>>}}

MaxBatch == 2

Batches ==
  UNION {[1..n -> UpdateEntries] : n \in 0..MaxBatch}

\* a validation record stored before its submission is, already reviewed
EarlierValidation ==
  DataValidation("E26", 1, "qm", "U1", 1, "O1", NEEDS_REVIEW, "kept")

\* the scenario of the test: three PENDING submissions of the red alliance,
\* with or without the earlier record
InitLife ==
  /\ apiKey = "test-key"
  /\ activeEvent = [O1 |-> "E25", O2 |-> "E25"]
  /\ schedule = RosterA
  /\ validations \in
       {{SeedValidation(SeedPool[i], "pending") : i \in 1..3} \cup extra
          : extra \in {{}, {EarlierValidation}}}
  /\ matchdata2025 =
       {SeedMatchData(SeedPool[i], "pending") : i \in 1..3}
  /\ matchdata2026 = {}
  /\ InitCommon

Submit ==
  \E m \in Payloads, c \in Memberships :
     SubmitScoutedMatch(c[1], c[2], m, ScenarioFields(m.team_number))

Edit ==
  \E m \in Payloads, c \in Memberships :
     EditScoutedMatch(c[1], c[2], m, OffFields(m.team_number))

Review ==
  \/ \E o \in Orgs, updates \in Batches : BatchUpdateDataValidations(o, updates)
  \/ \E m \in Payloads, c \in Memberships :
        MarkMatchDataValid(c[1], c[2], m, OffFields(m.team_number))

Next == TbaUpdate \/ Submit \/ Edit \/ Review

Spec == InitLife /\ [][Next]_vars

(* ------------------------------------------------------------------ *)
(* Organization events                                                 *)
(* ------------------------------------------------------------------ *)
\* the most OrganizationEvent rows ever created
MaxOrgEvents == 3

\* the rows of the select in get_active_event_key_for_user (lines 225-228)
ActiveRows(rows, org) ==
  {r \in rows : r.organization_id = org /\ r.active}

MultipleResults == "multiple"

\* what the active event of an organization resolves to
ResolveActive(rows, org) ==
  IF ActiveRows(rows, org) = {} THEN NoEvent
  ELSE IF Cardinality(ActiveRows(rows, org)) = 1
       THEN (CHOOSE r \in ActiveRows(rows, org) : TRUE).event_key
       ELSE MultipleResults

\* default_factory=uuid4: an id no stored row has
NewEventId(rows) ==
  CHOOSE n \in 1..(Cardinality(rows) + 2) : \A r \in rows : r.id < n

\* the event keys a creation may name: the FRC events and one that is none
EventKeyInputs == Events \cup {"E99"}

\* createOrganizationEvent(command): no caller is checked
CreateOrganizationEvent(org, event) ==
  /\ pc = "idle"
  /\ Cardinality(organizationEvents) < MaxOrgEvents
  /\ IF event \notin Events
     THEN /\ last' = Outcome("createEvent", org, 404, ZeroCounts, <<>>)
          /\ UNCHANGED organizationEvents
     ELSE /\ last' = Outcome("createEvent", org, 200, ZeroCounts, <<>>)
          /\ organizationEvents' =
               organizationEvents
               \cup {OrganizationEvent(NewEventId(organizationEvents),
                                       org, event, FALSE, TRUE)}
  /\ activeEvent' = [o \in Orgs |-> ResolveActive(organizationEvents', o)]
  /\ UNCHANGED <<apiKey, schedule, userOrganizations, tables, pc, run, pre,
                 runs, reviews, clock, req, call>>

\* entries of an update: event key, isPublic, isActive
EventUpdateEntries ==
  {[eventKey |-> e, isPublic |-> e = "E25", isActive |-> a]
     : e \in Events, a \in BOOLEAN}

EventUpdates == UNION {[1..n -> EventUpdateEntries] : n \in 0..2}

\* update_organization_events(updates) for a caller logged into org
UpdateOrganizationEvents(org, updates) ==
  /\ pc = "idle"
  /\ LET organization_events ==
           {r \in organizationEvents : r.organization_id = org}
         keys == {updates[i].eventKey : i \in 1..Len(updates)}
         update_of(k) ==
           updates[CHOOSE i \in 1..Len(updates) : updates[i].eventKey = k]
         reject(code) ==
           /\ last' = Outcome("updateEvents", org, code, ZeroCounts, <<>>)
           /\ UNCHANGED organizationEvents
     IN IF updates = <<>> THEN reject(400)
        ELSE IF Cardinality({i \in 1..Len(updates) : updates[i].isActive}) # 1
        THEN reject(400)
        ELSE IF organization_events = {} THEN reject(404)
        ELSE IF Cardinality(keys) # Len(updates) THEN reject(400)
        ELSE IF Cardinality(keys) # Cardinality(organization_events)
        THEN reject(400)
        ELSE IF \E r \in organization_events : r.event_key \notin keys
        THEN reject(400)
        ELSE /\ last' = Outcome("updateEvents", org, 200, ZeroCounts, <<>>)
             /\ organizationEvents' =
                  {IF r \in organization_events
                   THEN [r EXCEPT
                           !.public_data = update_of(r.event_key).isPublic,
                           !.active = update_of(r.event_key).isActive]
                   ELSE r : r \in organizationEvents}
  /\ activeEvent' = [o \in Orgs |-> ResolveActive(organizationEvents', o)]
  /\ UNCHANGED <<apiKey, schedule, userOrganizations, tables, pc, run, pre,
                 runs, reviews, clock, req, call>>

\* get_active_event_key_for_user for a member logged into org:
\* scalar_one_or_none raises when the select returns several rows
GetActiveEventKeyForUser(org) ==
  /\ pc = "idle"
  /\ last' = Outcome("activeEvent", org,
                     IF ActiveRows(organizationEvents, org) = {} THEN 404
                     ELSE IF Cardinality(ActiveRows(organizationEvents, org)) = 1
                          THEN 200 ELSE 500,
                     ZeroCounts, <<>>)
  /\ UNCHANGED <<config, tables, pc, run, pre, runs, reviews, clock, req,
                 call>>

\* no organization has an event yet, or the first has its active event
InitEvents ==
  /\ apiKey = "test-key"
  /\ activeEvent \in {[O1 |-> e, O2 |-> NoEvent] : e \in {NoEvent, "E25"}}
  /\ schedule = RosterA
  /\ validations = {}
  /\ matchdata2025 = {}
  /\ matchdata2026 = {}
  /\ InitCommon

NextEvents ==
  \/ \E o \in Orgs, e \in EventKeyInputs : CreateOrganizationEvent(o, e)
  \/ \E o \in Orgs, u \in EventUpdates : UpdateOrganizationEvents(o, u)
  \/ \E o \in Orgs : GetActiveEventKeyForUser(o)

SpecEvents == InitEvents /\ [][NextEvents]_vars

(* ------------------------------------------------------------------ *)
(* Memberships                                                         *)
(* ------------------------------------------------------------------ *)
\* the most membership requests made
MaxMemberOps == 2

MemberUsers == {"U1", "U2", "U3"}

\* the organizations an application names, one of them not stored
ApplicationOrgs == Orgs \cup {"O9"}

NoMembership == "absent"

\* the rows the selects by user and organization return
MembershipsOf(rows, user, org) ==
  {m \in rows : m.user_id = user /\ m.organization_id = org}

\* the role of the user in the organization, or NoMembership
RoleOf(rows, user, org) ==
  IF MembershipsOf(rows, user, org) = {} THEN NoMembership
  ELSE (CHOOSE m \in MembershipsOf(rows, user, org) : TRUE).role

MemberRequest(op, user, org, target, role) ==
  [op |-> op, user |-> user, org |-> org, target |-> target, role |-> role]

MemberStep(op, user, org, target, role, status) ==
  /\ pc = "idle"
  /\ reviews < MaxMemberOps
  /\ reviews' = reviews + 1
  /\ req' = MemberRequest(op, user, org, target, role)
  /\ last' = Outcome(op, org, status, ZeroCounts, <<>>)
  /\ UNCHANGED <<apiKey, activeEvent, schedule, organizationEvents, tables,
                 pc, run, pre, runs, clock, call>>

\* apply_to_organization(application) by user
ApplyToOrganization(user, org) ==
  IF org \notin Orgs
  THEN /\ MemberStep("apply", user, org, user, "PENDING", 404)
       /\ UNCHANGED userOrganizations
  ELSE IF MembershipsOf(userOrganizations, user, org) # {}
  THEN /\ MemberStep("apply", user, org, user, "PENDING", 400)
       /\ UNCHANGED userOrganizations
  ELSE /\ MemberStep("apply", user, org, user, "PENDING", 201)
       /\ userOrganizations' =
            userOrganizations \cup {UserOrganization(user, org, "PENDING")}

\* faulty variant: a lead may assign the admin and lead roles as well
MayAssign_LeadsToo(caller_role, role) ==
  role \in {"ADMIN", "LEAD"} => caller_role \in {"ADMIN", "LEAD"}

\* only an admin assigns the admin or lead role
MayAssign(caller_role, role) ==
  role \in {"ADMIN", "LEAD"} => caller_role = "ADMIN"

\* update_organization_member(change) by a caller logged into org
UpdateOrganizationMember(user, org, target, role) ==
  LET caller_role == RoleOf(userOrganizations, user, org)
      reject(code) == /\ MemberStep("updateMember", user, org, target, role, code)
                      /\ UNCHANGED userOrganizations
  IN IF caller_role = NoMembership THEN reject(404)
     ELSE IF caller_role \notin {"ADMIN", "LEAD"} THEN reject(403)
     ELSE IF ~MayAssign(caller_role, role) THEN reject(403)
     ELSE IF MembershipsOf(userOrganizations, target, org) = {} THEN reject(404)
     ELSE /\ MemberStep("updateMember", user, org, target, role, 200)
          /\ userOrganizations' =
               {IF m \in MembershipsOf(userOrganizations, target, org)
                THEN [m EXCEPT !.role = role] ELSE m : m \in userOrganizations}

\* delete_organization_member(request) by a caller logged into org
DeleteOrganizationMember(user, org, target) ==
  LET caller_role == RoleOf(userOrganizations, user, org)
      reject(code) == /\ MemberStep("deleteMember", user, org, target,
                                    NoMembership, code)
                      /\ UNCHANGED userOrganizations
  IN IF caller_role = NoMembership THEN reject(404)
     ELSE IF caller_role # "ADMIN" THEN reject(403)
     ELSE IF MembershipsOf(userOrganizations, target, org) = {} THEN reject(404)
     ELSE /\ MemberStep("deleteMember", user, org, target, NoMembership, 204)
          /\ userOrganizations' =
               userOrganizations \ MembershipsOf(userOrganizations, target, org)

\* delete_pending_application(request) by a caller logged into org
DeletePendingApplication(user, org, target) ==
  LET caller_role == RoleOf(userOrganizations, user, org)
      reject(code) == /\ MemberStep("deleteApplication", user, org, target,
                                    NoMembership, code)
                      /\ UNCHANGED userOrganizations
  IN IF caller_role = NoMembership THEN reject(404)
     ELSE IF caller_role \notin {"ADMIN", "LEAD"} THEN reject(403)
     ELSE IF MembershipsOf(userOrganizations, target, org) = {} THEN reject(404)
     ELSE IF RoleOf(userOrganizations, target, org) # "PENDING" THEN reject(400)
     ELSE /\ MemberStep("deleteApplication", user, org, target, NoMembership,
                         204)
          /\ userOrganizations' =
               userOrganizations \ MembershipsOf(userOrganizations, target, org)

InitMembers == InitEvents

NextMembers ==
  \/ \E u \in MemberUsers, o \in ApplicationOrgs : ApplyToOrganization(u, o)
  \/ \E u, t \in MemberUsers, o \in Orgs, r \in UserRole :
        UpdateOrganizationMember(u, o, t, r)
  \/ \E u, t \in MemberUsers, o \in Orgs : DeleteOrganizationMember(u, o, t)
  \/ \E u, t \in MemberUsers, o \in Orgs : DeletePendingApplication(u, o, t)

SpecMembers == InitMembers /\ [][NextMembers]_vars

(* ------------------------------------------------------------------ *)
(* Vocabulary of the properties                                        *)
(* ------------------------------------------------------------------ *)
LastRunDone == pc = "idle" /\ last.op = "tbaUpdate"

LastRunCommitted == LastRunDone /\ last.status = 200

LastRunFailed == LastRunDone /\ last.status # 200

RunEvent == activeEvent[last.caller]

\* the (match, alliance) pairs of the roster of an event
AlliancesOf(event) ==
  {[number |-> s.match_number, level |-> s.match_level, alliance |-> RED,
    teams |-> RedTeams(s)] : s \in {x \in schedule : x.event_key = event}}
  \cup
  {[number |-> s.match_number, level |-> s.match_level, alliance |-> BLUE,
    teams |-> BlueTeams(s)] : s \in {x \in schedule : x.event_key = event}}

\* the records of the invoking organization about a team of the pair
InAlliance(v, g) ==
  /\ v.event_key = RunEvent
  /\ v.organization_id = last.caller
  /\ v.match_number = g.number
  /\ v.match_level = g.level
  /\ \E i \in 1..3 : v.team_number = g.teams[i]

\* the records that were PENDING for one team of the pair when the run started
PrePendingFor(g, team) ==
  {v \in pre.validations : /\ InAlliance(v, g)
                           /\ v.team_number = team
                           /\ v.validation_status = PENDING}

PreSubmissionsOf(v) == {m \in pre.matchdata2025 : Identity(m) = Identity(v)}

DistinctSlots(g) == Cardinality({g.teams[i] : i \in 1..3}) = 3

\* one PENDING record and one stored submission for each roster team
CompleteInPre(g) ==
  \A i \in 1..3 :
     /\ Cardinality(PrePendingFor(g, g.teams[i])) = 1
     /\ \A v \in PrePendingFor(g, g.teams[i]) :
           Cardinality(PreSubmissionsOf(v)) = 1

EverySlotPending(g) == \A i \in 1..3 : PrePendingFor(g, g.teams[i]) # {}

HasDuplicate(g) ==
  \E i \in 1..3 : Cardinality(PrePendingFor(g, g.teams[i])) > 1

\* the submission behind the single pending record of slot i
SlotSubmission(g, i) ==
  CHOOSE m \in pre.matchdata2025 :
     \E v \in PrePendingFor(g, g.teams[i]) : Identity(m) = Identity(v)

FetchedEntries(g) ==
  {i \in 1..Len(last.fetched) :
     /\ last.fetched[i].key = <<RunEvent, g.level, g.number>>
     /\ last.fetched[i].status = 200}

\* the parser's output for the pair, from the response the run received
ParsedFor(g) ==
  LET i == CHOOSE j \in FetchedEntries(g) : TRUE
  IN Parse2025Breakdown(
       Get(last.fetched[i].body, ColorKey(g.alliance), EmptyDict), g.teams)

SlotSum(g, f) ==
  SlotSubmission(g, 1)[f] + SlotSubmission(g, 2)[f] + SlotSubmission(g, 3)[f]

\* field by field: the external values are the sums over the three
\* submissions, and each robot's endgame is that of the team in its slot
FieldsAgree(g) ==
  LET parsed == ParsedFor(g)
  IN /\ parsed.al4c = SlotSum(g, "al4c")
     /\ parsed.al3c = SlotSum(g, "al3c")
     /\ parsed.al2c = SlotSum(g, "al2c")
     /\ parsed.al1c = SlotSum(g, "al1c")
     /\ parsed.tl4c = SlotSum(g, "tl4c")
     /\ parsed.tl3c = SlotSum(g, "tl3c")
     /\ parsed.tl2c = SlotSum(g, "tl2c")
     /\ parsed.tl1c = SlotSum(g, "tl1c")
     /\ parsed.net = SlotSum(g, "aNet") + SlotSum(g, "tNet")
     /\ parsed.processor = SlotSum(g, "aProcessor") + SlotSum(g, "tProcessor")
     /\ parsed.bot1endgame = SlotSubmission(g, 1).endgame
     /\ parsed.bot2endgame = SlotSubmission(g, 2).endgame
     /\ parsed.bot3endgame = SlotSubmission(g, 3).endgame

\* the status a record of the start of the run has now
StatusNow(v) ==
  LET w == CHOOSE x \in validations : ValKey(x) = ValKey(v)
  IN w.validation_status

TbaRowsOf(rows, g) ==
  {t \in rows : TbaKey(t) = <<RunEvent, g.number, g.level, g.alliance>>}

MovedToValid ==
  {v \in validations : v.validation_status = VALID /\ v \notin pre.validations}

(* ------------------------------------------------------------------ *)
(* Properties of the reconciliation run                                *)
(* ------------------------------------------------------------------ *)

\* C1: a record that a reconciliation run moved to VALID belongs to an
\* alliance with exactly one PENDING record and one stored submission per
\* roster team whose combined fields all equal the parsed external breakdown.
C1_ValidOnlyForMatchingCompleteAlliance ==
  LastRunDone =>
    \A v \in MovedToValid :
       \E g \in AlliancesOf(RunEvent) :
          /\ InAlliance(v, g)
          /\ CompleteInPre(g)
          /\ FetchedEntries(g) # {}
          /\ FieldsAgree(g)

C1_Witness == LastRunDone /\ MovedToValid # {}

\* C2: after a run that completes, the three records of a complete alliance
\* group are all VALID when every combined field equals the parsed external
\* breakdown, and all NEEDS_REVIEW when a field differs.
C2_CompleteGroupResolvedTogether ==
  LastRunCommitted =>
    \A g \in AlliancesOf(RunEvent) :
       (DistinctSlots(g) /\ CompleteInPre(g)) =>
          /\ FetchedEntries(g) # {}
          /\ \A i \in 1..3 : \A v \in PrePendingFor(g, g.teams[i]) :
                StatusNow(v) = IF FieldsAgree(g) THEN VALID ELSE NEEDS_REVIEW

C2_Witness ==
  /\ LastRunCommitted
  /\ \E g, h \in AlliancesOf(RunEvent) :
        /\ DistinctSlots(g) /\ CompleteInPre(g) /\ FieldsAgree(g)
        /\ DistinctSlots(h) /\ CompleteInPre(h) /\ ~FieldsAgree(h)

ScenarioValidations ==
  {DataValidation("E25", 1, "qm", "U1", 1, "O1", PENDING, ""),
   DataValidation("E25", 1, "qm", "U2", 2, "O1", PENDING, ""),
   DataValidation("E25", 1, "qm", "U3", 3, "O1", PENDING, "")}

ScenarioSubmissions ==
  {Stamp(MatchData2025(MatchData(1, "E25", 1, "qm", t, u, "O1", ""),
                       ScenarioFields(t)), 0)
     : <<t, u>> \in {<<1, "U1">>, <<2, "U2">>, <<3, "U3">>}}

ScenarioRun ==
  /\ LastRunCommitted
  /\ pre.validations = ScenarioValidations
  /\ pre.matchdata2025 = ScenarioSubmissions
  /\ schedule = RosterA
  /\ last.fetched = << [key |-> <<"E25", "qm", 1>>, status |-> 200,
                        body |-> [red |-> TestBreakdown, blue |-> EmptyDict]] >>

\* C3: in the scenario of the test (red roster 1, 2, 3, the three PENDING
\* submissions, the external red breakdown with rows 1/1/1 and 2/2/2), one
\* run leaves exactly three validation records, all VALID, and reports
\* updated_validations = 3.
C3_ScenarioAllValid ==
  ScenarioRun =>
    /\ Cardinality(validations) = 3
    /\ \A v \in validations : v.validation_status = VALID
    /\ last.result.updated_validations = 3

\* C4: when a roster team of a (match, alliance) pair has no PENDING record
\* of the invoking organization, a run changes none of the pair's validation
\* records and upserts no external result for the pair.
C4_IncompleteAllianceUntouched ==
  LastRunDone =>
    \A g \in AlliancesOf(RunEvent) :
       (~EverySlotPending(g)) =>
          /\ \A v \in pre.validations : InAlliance(v, g) => v \in validations
          /\ TbaRowsOf(tba, g) = TbaRowsOf(pre.tba, g)

C4_Witness ==
  /\ LastRunCommitted
  /\ Len(last.fetched) > 0
  /\ \E g \in AlliancesOf(RunEvent) :
        /\ ~EverySlotPending(g)
        /\ Cardinality({i \in 1..3 : PrePendingFor(g, g.teams[i]) # {}}) = 2

\* C5 as stated: a pair with duplicate PENDING records for a roster team, or
\* with roster slots that are not three distinct teams, is skipped: all its
\* records are still PENDING after the run.
C5_DuplicatesLeftPending ==
  LastRunDone =>
    \A g \in AlliancesOf(RunEvent) :
       (HasDuplicate(g) \/ ~DistinctSlots(g)) =>
          \A i \in 1..3 : \A v \in PrePendingFor(g, g.teams[i]) :
             StatusNow(v) = PENDING

\* C5 amended: such a pair is never auto-validated; after a run that
\* completes its records are all NEEDS_REVIEW when every roster slot had a
\* PENDING record, and in every other case they are still PENDING.
C5_DuplicatesSentToReview ==
  LastRunDone =>
    \A g \in AlliancesOf(RunEvent) :
       (HasDuplicate(g) \/ ~DistinctSlots(g)) =>
          \A i \in 1..3 : \A v \in PrePendingFor(g, g.teams[i]) :
             StatusNow(v) = IF last.status = 200 /\ EverySlotPending(g)
                            THEN NEEDS_REVIEW ELSE PENDING

C5_Witness ==
  /\ LastRunCommitted
  /\ \E g, h \in AlliancesOf(RunEvent) :
        /\ HasDuplicate(g) /\ DistinctSlots(g) /\ EverySlotPending(g)
        /\ ~DistinctSlots(h) /\ EverySlotPending(h)
        /\ \E entry \in FetchedEntries(h) :
              last.fetched[entry].body = [red |-> DoubledBreakdown,
                                          blue |-> EmptyDict]

\* C6: a run never changes the status or notes of a record that was not
\* PENDING when the run started, neither in its session nor in the tables.
C6_ResolvedRecordsUntouched ==
  last.op = "tbaUpdate" =>
    \A v \in pre.validations :
       v.validation_status # PENDING =>
          /\ v \in validations
          /\ pc = "fetch" => v \in run.sessValidations

C6_Witness ==
  /\ LastRunCommitted
  /\ runs > 1
  /\ validations # pre.validations
  /\ \E v, w \in pre.validations :
        /\ v.validation_status = VALID
        /\ w.validation_status = NEEDS_REVIEW

\* C8: the tables change only at the commit that ends a run: while a run is
\* in its loop and after a run that ended with an error, every validation
\* record and every external-result row is what it was before the run; after
\* a commit every pair whose slots all had a PENDING record has its external
\* result stored and none of its records left PENDING.
C8_AllOrNothing ==
  last.op = "tbaUpdate" =>
    /\ (pc = "fetch" \/ last.status # 200) =>
          validations = pre.validations /\ tba = pre.tba
    /\ LastRunCommitted =>
          \A g \in AlliancesOf(RunEvent) :
             EverySlotPending(g) =>
                /\ TbaRowsOf(tba, g) # {}
                /\ \A i \in 1..3 : \A v \in PrePendingFor(g, g.teams[i]) :
                      StatusNow(v) # PENDING

C8_Witness ==
  /\ LastRunFailed
  /\ Len(last.fetched) = 2
  /\ last.fetched[1].status = 200
  /\ last.fetched[2].status = 404

\* C9: with an active event of an unsupported season (2026) a run ends with
\* an error, fetches nothing, and leaves every validation record and the
\* external results as they were.
C9_UnsupportedSeasonFails ==
  (last.op = "tbaUpdate" /\ RunEvent \in Events /\ EventYear(RunEvent) = 2026) =>
    /\ pc = "idle"
    /\ last.status \notin {0, 200}
    /\ last.fetched = <<>>
    /\ validations = pre.validations
    /\ tba = pre.tba
    /\ {t \in tba : t.event_key = RunEvent} = {}

C9_Witness ==
  /\ last.op = "tbaUpdate"
  /\ RunEvent = "E26"
  /\ apiKey = "test-key"
  /\ \E v \in validations :
        v.event_key = "E26" /\ v.validation_status = PENDING

\* C10: with TBA_API_KEY missing or empty a run ends with an error, whatever
\* the roster and the pending records are, fetches nothing and writes nothing.
C10_MissingKeyFails ==
  (last.op = "tbaUpdate" /\ apiKey \in {"unset", ""}) =>
    /\ pc = "idle"
    /\ last.status \notin {0, 200}
    /\ last.fetched = <<>>
    /\ validations = pre.validations
    /\ tba = pre.tba

C10_Witness ==
  /\ last.op = "tbaUpdate"
  /\ apiKey = ""
  /\ RunEvent = "E25"
  /\ \E g \in AlliancesOf(RunEvent) : DistinctSlots(g) /\ CompleteInPre(g)

(* ------------------------------------------------------------------ *)
(* Properties of the validation lifecycle                              *)
(* ------------------------------------------------------------------ *)
\* the status changes of one step: <<operation, from, to>>
StatusChanges ==
  {<<last'.op, v.validation_status, w.validation_status>> :
     <<v, w>> \in {x \in validations \X validations' :
                     /\ ValKey(x[1]) = ValKey(x[2])
                     /\ x[1].validation_status # x[2].validation_status}}

RecordsKept ==
  \A v \in validations : \E w \in validations' : ValKey(w) = ValKey(v)

\* C7 as stated: a status changes only from PENDING to VALID, from PENDING to
\* NEEDS_REVIEW (by reconciliation) or from NEEDS_REVIEW to VALID (by review).
C7_OnlyForwardTransitions ==
  [][/\ RecordsKept
     /\ \A c \in StatusChanges :
           \/ c[2] = PENDING /\ c[3] = VALID
           \/ c[1] = "tbaUpdate" /\ c[2] = PENDING /\ c[3] = NEEDS_REVIEW
           \/ c[1] \in {"batchUpdate", "markValid"}
              /\ c[2] = NEEDS_REVIEW /\ c[3] = VALID]_vars

\* C7 amended: no record is ever removed; a reconciliation run changes a
\* status only from PENDING to VALID or NEEDS_REVIEW; correct-and-validate
\* only sets VALID; a submission changes no status; every other change is
\* made by a reviewer's batch update, which sets the status it is given.
C7_TransitionsByOperation ==
  [][/\ RecordsKept
     /\ \A c \in StatusChanges :
           \/ c[1] = "tbaUpdate" /\ c[2] = PENDING
              /\ c[3] \in {VALID, NEEDS_REVIEW}
           \/ c[1] = "markValid" /\ c[3] = VALID
           \/ c[1] = "batchUpdate"]_vars

C7_Witness ==
  /\ last.op = "batchUpdate"
  /\ last.status = 200
  /\ \E v \in pre.validations :
        /\ v.validation_status = VALID
        /\ StatusNow(v) = PENDING

(* ------------------------------------------------------------------ *)
(* Properties of submissions and their validation records              *)
(* ------------------------------------------------------------------ *)
Submissions == matchdata2025 \cup matchdata2026

\* the validation records with the identity tuple of a row
RecordsOf(rows, m) == {v \in rows : Identity(v) = Identity(m)}

\* the table a request's season selects, before the step
RequestTable == MatchRows(SeasonYear(req'.match.season))

\* the caller passes the membership, event, season and user checks
RequestAuthorized(r) ==
  /\ r.match.organization_id = r.org
  /\ r.match.user_id = r.user
  /\ EventYear(r.match.event_key) = SeasonYear(r.match.season)

\* C11: every stored submission, of season 2025 as of any other, has exactly
\* one validation record with its identity tuple.
C11_EverySubmissionHasOneRecord ==
  \A m \in Submissions : Cardinality(RecordsOf(validations, m)) = 1

\* C12: when a validation record with the submission's identity is already
\* stored as the submission is inserted, the validation table after the
\* insert is the table before it: no second record, same status and notes.
C12_HookIdempotent ==
  [][(/\ last'.op = "submit"
      /\ last'.status = 200
      /\ RecordsOf(validations, req'.match) # {})
     => validations' = validations]_vars

C12_Witness ==
  /\ last.op = "submit"
  /\ last.status = 200
  /\ SeasonYear(req.match.season) \in HOOKED_MATCH_DATA_YEARS
  /\ \E v \in RecordsOf(pre.validations, req.match) :
        /\ v.validation_status = NEEDS_REVIEW
        /\ v.notes = "kept"
        /\ v \in validations
  /\ \E m \in matchdata2026 \ pre.matchdata2026 :
        Identity(m) = Identity(req.match)

\* C13: no table holds two submissions with the same identity tuple, and a
\* submission whose identity is already stored is refused, with 409 when the
\* caller passes the earlier checks, leaving submissions and validation
\* records as they were.
C13_OneSubmissionPerIdentity ==
  [][/\ \A m, n \in Submissions' : Identity(m) = Identity(n) => m = n
     /\ (/\ last'.op = "submit"
         /\ \E m \in RequestTable : Identity(m) = Identity(req'.match))
        => /\ last'.status # 200
           /\ RequestAuthorized(req') => last'.status = 409
           /\ UNCHANGED tables]_vars

C13_Witness ==
  /\ last.op = "submit"
  /\ last.status = 409
  /\ \E m \in pre.matchdata2025 : Identity(m) = Identity(req.match)
  /\ matchdata2025 = pre.matchdata2025
  /\ validations = pre.validations

\* the table a request's season selects, after the step
RequestTableAfter ==
  IF SeasonYear(req'.match.season) = 2025 THEN matchdata2025'
  ELSE matchdata2026'

\* the stored row carries the season-specific values the request sent
CarriesFields(n, r) ==
  SeasonYear(r.match.season) = 2025 =>
    \A f \in DOMAIN r.fields : n[f] = r.fields[f]

\* C14: an edit replaces the season-specific values of the stored submission
\* and keeps its identity and its stored timestamp; it creates and deletes
\* no submission; without a stored submission of that identity it answers
\* 'not found' and changes nothing.
C14_EditKeepsIdentityAndTimestamp ==
  [][last'.op = "edit" =>
       LET old == {m \in RequestTable : Identity(m) = Identity(req'.match)}
       IN /\ {Identity(m) : m \in Submissions'}
               = {Identity(m) : m \in Submissions}
          /\ Cardinality(Submissions') = Cardinality(Submissions)
          /\ last'.status = 200 =>
               \A m \in old : \E n \in RequestTableAfter :
                  /\ Identity(n) = Identity(m)
                  /\ n.timestamp = m.timestamp
                  /\ CarriesFields(n, req')
          /\ last'.status # 200 => UNCHANGED tables
          /\ (old = {} /\ RequestAuthorized(req')) => last'.status = 404]_vars

\* C18: a successful correct-and-validate request leaves the submission with
\* the request's scoring values, its own notes and its identity, and leaves
\* the validation record VALID with the request's notes.
C18_CorrectAndValidate ==
  [][(last'.op = "markValid" /\ last'.status = 200) =>
       /\ \A m \in matchdata2025 :
             Identity(m) = Identity(req'.match) =>
               \E n \in matchdata2025' :
                  /\ Identity(n) = Identity(m)
                  /\ n.notes = m.notes
                  /\ CarriesFields(n, req')
       /\ \A v \in RecordsOf(validations', req'.match) :
             /\ v.validation_status = VALID
             /\ v.notes = req'.match.notes]_vars

(* ------------------------------------------------------------------ *)
(* Properties of the counts and of the stored external results         *)
(* ------------------------------------------------------------------ *)
\* the (match, alliance) pairs every slot of which had a PENDING record
GroupsOfRun == {g \in AlliancesOf(RunEvent) : EverySlotPending(g)}

MatchesOfRun == {<<g.level, g.number>> : g \in GroupsOfRun}

\* the records whose status the run set
RecordsSetByRun ==
  {v \in pre.validations : v \notin validations}

\* C15: the counts of a successful run are the number of matches with a
\* complete alliance (one fetch each), the number of alliance results
\* upserted and the number of records whose status was set; without a
\* complete alliance they are all 0, nothing is fetched and nothing written.
C15_CountsAgree ==
  LastRunCommitted =>
    /\ last.result.updated_matches = Cardinality(MatchesOfRun)
    /\ Len(last.fetched) = Cardinality(MatchesOfRun)
    /\ last.result.updated_alliances = Cardinality(GroupsOfRun)
    /\ \A g \in GroupsOfRun : Cardinality(TbaRowsOf(tba, g)) = 1
    /\ last.result.updated_validations = Cardinality(RecordsSetByRun)
    /\ GroupsOfRun = {} =>
         /\ last.result = ZeroCounts
         /\ last.fetched = <<>>
         /\ validations = pre.validations
         /\ tba = pre.tba

C15_Witness ==
  /\ LastRunCommitted
  /\ last.result.updated_matches >= 1
  /\ last.result.updated_alliances > last.result.updated_matches
  /\ last.result.updated_validations >= 3

\* the external result the run's select finds for a pair
ResultOf(g) ==
  [event_key |-> RunEvent, match_number |-> g.number,
   match_level |-> g.level, alliance |-> g.alliance] @@ ParsedFor(g)

\* C16: at most one external result is stored per (event, level, number,
\* color), red and blue of one match being two rows of the table; a run
\* creates the result of a processed alliance when there is none and
\* overwrites it when there is one, and its fields are the parser's output
\* for that alliance's breakdown.
C16_OneResultPerAlliance ==
  /\ \A t, u \in tba : TbaKey(t) = TbaKey(u) => t = u
  /\ \A t, u \in tba :
        t # u => TBAMatchData2025PrimaryKey(t) # TBAMatchData2025PrimaryKey(u)
  /\ LastRunCommitted =>
       \A g \in GroupsOfRun : TbaRowsOf(tba, g) = {ResultOf(g)}

\* C17: a run of an organization with an active event changes only the
\* validation records of that event and that organization.
C17_OnlyOwnRecordsChange ==
  LastRunDone =>
    /\ \A v \in pre.validations :
          (v.event_key # RunEvent \/ v.organization_id # last.caller)
            => v \in validations
    /\ {ValKey(v) : v \in validations} = {ValKey(v) : v \in pre.validations}

C17_Witness ==
  /\ LastRunCommitted
  /\ \E v, w, x \in pre.validations :
        /\ v \notin validations
        /\ w.organization_id # last.caller
        /\ w.event_key = RunEvent
        /\ w.match_number = v.match_number
        /\ w.team_number = v.team_number
        /\ w.validation_status = PENDING
        /\ x.organization_id = last.caller
        /\ x.event_key # RunEvent
        /\ x.validation_status = PENDING

(* ------------------------------------------------------------------ *)
(* Properties of the breakdown parser                                  *)
(* ------------------------------------------------------------------ *)
Parsed == call.fn = "_parse_2025_breakdown"

ReefRows ==
  {[direct |-> "tba_topRowCount", nested |-> "topRow", auto |-> "al4c",
    tele |-> "tl4c"],
   [direct |-> "tba_midRowCount", nested |-> "midRow", auto |-> "al3c",
    tele |-> "tl3c"],
   [direct |-> "tba_botRowCount", nested |-> "botRow", auto |-> "al2c",
    tele |-> "tl2c"]}

GivenReef(k) ==
  IF k \in DOMAIN call.breakdown THEN call.breakdown[k] ELSE EmptyDict

\* the count a reef object reports for a row: the top-level aggregate when
\* its key is present, the nested count otherwise
ReportedCount(reef, r) ==
  IF r.direct \in DOMAIN reef THEN reef[r.direct]
  ELSE IF r.nested \in DOMAIN reef /\ "tba_rowCount" \in DOMAIN reef[r.nested]
       THEN reef[r.nested].tba_rowCount
       ELSE 0

ReportedTrough(reef) == IF "trough" \in DOMAIN reef THEN reef.trough ELSE 0

\* the row is reported in one shape at most
OneShape(reef, r) == ~(r.direct \in DOMAIN reef /\ r.nested \in DOMAIN reef)

FlooredDifference(t, a) == IF t >= a THEN t - a ELSE 0

C20_TopLevelPreferred ==
  Parsed =>
    \A r \in ReefRows :
       call.result[r.auto] = ReportedCount(GivenReef("autoReef"), r)

\* every count of a reef object is zero or absent
ZeroReef(reef) ==
  /\ \A k \in {"tba_topRowCount", "tba_midRowCount", "tba_botRowCount",
               "trough"} : k \in DOMAIN reef => reef[k] = 0
  /\ \A k \in {"topRow", "midRow", "botRow"} :
        (k \in DOMAIN reef /\ "tba_rowCount" \in DOMAIN reef[k])
          => reef[k].tba_rowCount = 0

\* every count of the breakdown is zero or absent and no robot is reported
\* in a cage or parked
ZeroBreakdown(b) ==
  /\ ZeroReef(IF "autoReef" \in DOMAIN b THEN b.autoReef ELSE EmptyDict)
  /\ ZeroReef(IF "teleopReef" \in DOMAIN b THEN b.teleopReef ELSE EmptyDict)
  /\ \A k \in {"netAlgaeCount", "wallAlgaeCount"} : k \in DOMAIN b => b[k] = 0
  /\ \A k \in {"endGameRobot1", "endGameRobot2", "endGameRobot3"} :
        k \in DOMAIN b => b[k] = "None"

\* C21: parsing a breakdown in which every count is zero or absent (the
\* empty breakdown included) yields 0 for every numeric field and NONE for
\* the three endgame fields.
C21_ZeroBreakdownParsesToZero ==
  (Parsed /\ ZeroBreakdown(call.breakdown)) =>
    /\ \A f \in {"al4c", "al3c", "al2c", "al1c", "tl4c", "tl3c", "tl2c",
                 "tl1c", "net", "processor"} : call.result[f] = 0
    /\ \A f \in {"bot1endgame", "bot2endgame", "bot3endgame"} :
          call.result[f] = "NONE"

C21_Witness ==
  /\ Parsed
  /\ ZeroBreakdown(call.breakdown)
  /\ "autoReef" \in DOMAIN call.breakdown
  /\ "topRow" \in DOMAIN call.breakdown.autoReef
  /\ "tba_rowCount" \notin DOMAIN call.breakdown.autoReef.topRow
  /\ "tba_topRowCount" \in DOMAIN call.breakdown.autoReef
  /\ "endGameRobot1" \in DOMAIN call.breakdown
  /\ "teleopReef" \notin DOMAIN call.breakdown

(* ------------------------------------------------------------------ *)
(* Properties of the endgame classification                            *)
(* ------------------------------------------------------------------ *)
Classified == call.fn = "_map_endgame_status_2025"

\* the signals of the call, whatever their position
SignalsGiven == {call.statuses[i] : i \in 1..Len(call.statuses)}

DeepSpellings == {"DeepCage", "DEEPCAGE", "deepcage"}

ShallowSpellings == {"ShallowCage", "SHALLOWCAGE", "shallowcage"}

ParkedSpellings == {"Parked", "PARKED", "parked"}

Reorderings(l) ==
  {[i \in 1..Len(l) |-> l[p[i]]] :
     p \in {q \in [1..Len(l) -> 1..Len(l)] :
              \A i, j \in 1..Len(l) : q[i] = q[j] => i = j}}

\* C22: the classification is DEEP if any signal is deepcage in any case,
\* else SHALLOW if any is shallowcage, else PARK if any is parked, else
\* NONE; it does not depend on the order of the signals, and an
\* unrecognized or absent signal contributes nothing.
C22_EndgamePriority ==
  Classified =>
    /\ call.result =
         IF SignalsGiven \cap DeepSpellings # {} THEN "DEEP"
         ELSE IF SignalsGiven \cap ShallowSpellings # {} THEN "SHALLOW"
         ELSE IF SignalsGiven \cap ParkedSpellings # {} THEN "PARK"
         ELSE "NONE"
    /\ \A l \in Reorderings(call.statuses) :
          MapEndgameStatus2025(l) = call.result
    /\ MapEndgameStatus2025(
         SelectSeq(call.statuses,
                   LAMBDA x : x \notin {"Climbed", "None", NullSignal}))
         = call.result

C22_Witness ==
  /\ Classified
  /\ Len(call.statuses) = 3
  /\ call.statuses[1] \in ParkedSpellings
  /\ call.statuses[2] \in {"Climbed", NullSignal}
  /\ call.statuses[3] \in DeepSpellings
  /\ call.result = "DEEP"

(* ------------------------------------------------------------------ *)
(* Properties of the combiner                                          *)
(* ------------------------------------------------------------------ *)
Combined == call.fn = "_combine_2025_match_data"

\* one submission for each of the three roster teams
OneSubmissionPerSlot ==
  /\ Cardinality({call.teams[i] : i \in 1..3}) = 3
  /\ {call.records[i].team_number : i \in 1..3} = {call.teams[i] : i \in 1..3}

SumOfThree(f) == call.records[1][f] + call.records[2][f] + call.records[3][f]

SubmissionOfTeam(team) ==
  CHOOSE r \in {call.records[i] : i \in 1..3} : r.team_number = team

\* C23: given one submission per roster team, the combiner returns the sum
\* of each coral field over the three submissions, net and processor as the
\* sums of their autonomous and teleop parts, and for slot i the endgame of
\* the submission of the i-th roster team, whatever the order in which the
\* submissions are passed.
C23_CombinerSumsAndSlots ==
  (Combined /\ call.calls = 1 /\ OneSubmissionPerSlot) =>
    /\ call.result.ok
    /\ \A f \in {"al4c", "al3c", "al2c", "al1c", "tl4c", "tl3c", "tl2c",
                 "tl1c"} : call.result.data[f] = SumOfThree(f)
    /\ call.result.data.net = SumOfThree("aNet") + SumOfThree("tNet")
    /\ call.result.data.processor
         = SumOfThree("aProcessor") + SumOfThree("tProcessor")
    /\ \A i \in 1..3 :
          call.result.data[BotKey(i)] = SubmissionOfTeam(call.teams[i]).endgame
    /\ \A l \in Reorderings(call.records) :
          Combine2025MatchData(l, call.teams) = call.result

C23_Witness ==
  /\ Combined
  /\ call.calls = 1
  /\ OneSubmissionPerSlot
  /\ call.teams = <<3, 1, 2>>
  /\ call.records[1].team_number = 1
  /\ call.records[2].team_number = 2
  /\ Cardinality({call.records[i].endgame : i \in 1..3}) = 3
  /\ call.result.data.bot1endgame = call.records[3].endgame

MissingSubmission(g) ==
  \E i \in 1..3 : \E v \in PrePendingFor(g, g.teams[i]) :
     PreSubmissionsOf(v) = {}

\* the pair's records in roster order, when each slot has exactly one
SlotRecords(g) ==
  [i \in 1..3 |-> CHOOSE v \in PrePendingFor(g, g.teams[i]) : TRUE]

\* the stored submissions about the pair's match
SubmissionsOfMatch(g) ==
  {m \in pre.matchdata2025 : /\ m.event_key = RunEvent
                             /\ m.match_number = g.number
                             /\ m.match_level = g.level}

RunFailedOnItsOwn ==
  \/ ApiKeyMissing(apiKey)
  \/ \E i \in 1..Len(last.fetched) : last.fetched[i].status # 200

\* C25: when the submissions of a group cannot be mapped one-to-one onto
\* the three roster slots (a roster team without a submission among them,
\* or a pending record without a stored submission) the combiner result is
\* not computable, the run does not fail for it, and every record of the
\* group is set to NEEDS_REVIEW, never VALID.
C25_NotComputableGoesToReview ==
  LastRunDone =>
    \A g \in GroupsOfRun :
       /\ \A l \in [1..3 -> SubmissionsOfMatch(g)] :
             (\E i \in 1..3 : \A j \in 1..3 : l[j].team_number # g.teams[i])
               => ~Combine2025MatchData(l, g.teams).ok
       /\ MissingSubmission(g) =>
            /\ (\A i \in 1..3 : Cardinality(PrePendingFor(g, g.teams[i])) = 1)
                 => ~CalculateCombinedMatchData(2025, pre.matchdata2025,
                                                SlotRecords(g), g.teams).ok
            /\ last.status # 200 => RunFailedOnItsOwn
            /\ last.status = 200 =>
                 \A i \in 1..3 : \A v \in PrePendingFor(g, g.teams[i]) :
                    StatusNow(v) = NEEDS_REVIEW

C25_Witness ==
  /\ LastRunCommitted
  /\ \E g \in GroupsOfRun :
        /\ MissingSubmission(g)
        /\ DistinctSlots(g)
        /\ ~HasDuplicate(g)
        /\ Cardinality(SubmissionsOfMatch(g)) = 2
        /\ \A i \in 1..3 : \A v \in PrePendingFor(g, g.teams[i]) :
              StatusNow(v) = NEEDS_REVIEW

(* ------------------------------------------------------------------ *)
(* Properties of the comparator                                        *)
(* ------------------------------------------------------------------ *)
Compared == call.fn = "_tba_matches_combined_data"

\* the external fields the internal mapping lacks
AbsentFields == DOMAIN call.tba_data \ DOMAIN call.combined_data

\* the external fields the internal mapping has with another value
DifferingFields ==
  {f \in DOMAIN call.tba_data \cap DOMAIN call.combined_data :
     call.tba_data[f] # call.combined_data[f]}

\* the internal mapping without the fields the external one does not have
WithoutInternalOnly ==
  [f \in DOMAIN call.combined_data \cap DOMAIN call.tba_data |->
     call.combined_data[f]]

\* C26: the comparator returns 'matches' exactly when every field of the
\* external mapping is in the internal mapping with an equal value; one
\* differing field or one field absent from the internal mapping makes it
\* 'no match', and fields only the internal mapping has are ignored.
C26_ComparatorExact ==
  Compared =>
    /\ call.result <=> Cardinality(AbsentFields \cup DifferingFields) = 0
    /\ Cardinality(DifferingFields) = 1 => ~call.result
    /\ Cardinality(AbsentFields) = 1 => ~call.result
    /\ call.result
         = TbaMatchesCombinedData(call.tba_data, WithoutInternalOnly)

C26_Witness ==
  /\ Compared
  /\ call.result
  /\ Cardinality(DOMAIN call.tba_data) = 3
  /\ call.tba_data.bot1endgame = "DEEP"
  /\ call.tba_data.al4c = 1
  /\ "updated_by" \in DOMAIN call.combined_data

(* ------------------------------------------------------------------ *)
(* Properties of the external fetches                                  *)
(* ------------------------------------------------------------------ *)
\* the fetches of the current run, or of the last one, in the order issued
FetchLog == IF pc = "fetch" THEN run.fetched ELSE last.fetched

FetchesInOrder ==
  last.op = "tbaUpdate" =>
    /\ \A i, j \in 1..Len(FetchLog) :
          FetchLog[i].key = FetchLog[j].key => i = j
    /\ \A i \in 1..Len(FetchLog) :
          \E g \in GroupsOfRun :
             FetchLog[i].key = <<RunEvent, g.level, g.number>>
    /\ \A i \in 1..Len(FetchLog) : i < Len(FetchLog) => FetchLog[i].status = 200
    /\ LastRunCommitted =>
         {FetchLog[i].key : i \in 1..Len(FetchLog)}
           = {<<RunEvent, m[1], m[2]>> : m \in MatchesOfRun}

OneFetchPerStep ==
  \/ FetchLog' = FetchLog
  \/ pc = "idle" /\ FetchLog' = <<>>
  \/ /\ pc = "fetch"
     /\ Len(FetchLog') = Len(FetchLog) + 1
     /\ SubSeq(FetchLog', 1, Len(FetchLog)) = FetchLog

\* C27: within a run the fetches are issued one at a time, at most one per
\* match key, only for matches with a complete alliance group; a failed
\* fetch is never retried and no fetch is issued after a failed one.
C27_FetchesSequentialOncePerMatch ==
  [](FetchesInOrder) /\ [][OneFetchPerStep]_vars

C27_Witness ==
  /\ LastRunFailed
  /\ Len(last.fetched) = 2
  /\ last.fetched[1].status = 200
  /\ \E g, h \in GroupsOfRun :
        /\ g.number = h.number
        /\ g.alliance # h.alliance
        /\ \E i \in 1..2 : last.fetched[i].key = <<RunEvent, g.level, g.number>>

(* ------------------------------------------------------------------ *)
(* Properties of the reviewer's batch update                           *)
(* ------------------------------------------------------------------ *)
BatchDone == pc = "idle" /\ last.op = "batchUpdate" /\ req.op = "batchUpdate"

\* the entry names the record, in the reviewer's organization and event
Names(entry, v) ==
  /\ v.event_key = activeEvent[req.org]
  /\ v.organization_id = req.org
  /\ v.match_number = entry.matchNumber
  /\ v.match_level = entry.matchLevel
  /\ v.team_number = entry.teamNumber
  /\ v.user_id = entry.userId

EntriesNaming(v) == {i \in 1..Len(req.updates) : Names(req.updates[i], v)}

EntriesWithNotesNaming(v) ==
  {i \in EntriesNaming(v) : req.updates[i].notes # NoNotes}

MissingEntries ==
  {i \in 1..Len(req.updates) :
     \A v \in pre.validations : ~Names(req.updates[i], v)}

Latest(S) == CHOOSE i \in S : \A j \in S : j <= i

RecordNow(v) == CHOOSE w \in validations : ValKey(w) = ValKey(v)

\* C28: a batch with an entry naming no record of the reviewer's
\* organization and active event ends with 'not found' and leaves every
\* record's status and notes as they were, also for the entries before the
\* missing one; when every entry names a record, each named record takes
\* the requested status and its notes change only if the entry has notes.
C28_BatchAllOrNothing ==
  (BatchDone /\ req.updates # <<>>) =>
    IF MissingEntries # {}
    THEN last.status = 404 /\ validations = pre.validations
    ELSE /\ last.status = 200
         /\ {ValKey(v) : v \in validations} = {ValKey(v) : v \in pre.validations}
         /\ \A v \in pre.validations :
               IF EntriesNaming(v) = {} THEN v \in validations
               ELSE /\ RecordNow(v).validation_status
                         = req.updates[Latest(EntriesNaming(v))].validationStatus
                    /\ RecordNow(v).notes
                         = IF EntriesWithNotesNaming(v) = {} THEN v.notes
                           ELSE req.updates[Latest(EntriesWithNotesNaming(v))].notes

C28_Witness ==
  /\ BatchDone
  /\ last.status = 404
  /\ Len(req.updates) = 2
  /\ MissingEntries = {2}
  /\ \E v \in pre.validations :
        /\ Names(req.updates[1], v)
        /\ v.validation_status # req.updates[1].validationStatus

(* ------------------------------------------------------------------ *)
(* Properties of the organization events                               *)
(* ------------------------------------------------------------------ *)
\* C29: after any sequence of organization-event creations and event-flag
\* updates each organization has at most one active event, so resolving
\* the active event of a user never finds more than one.
C29_AtMostOneActiveEvent ==
  /\ \A o \in Orgs : Cardinality(ActiveRows(organizationEvents, o)) <= 1
  /\ last.op = "activeEvent" => last.status # 500

(* ------------------------------------------------------------------ *)
(* Properties of the memberships                                       *)
(* ------------------------------------------------------------------ *)
\* the caller of the step is at that moment an admin of the organization
CallerIsAdminOf(o) ==
  /\ req'.org = o
  /\ RoleOf(userOrganizations, req'.user, o) = "ADMIN"

\* C30: a membership becomes ADMIN or LEAD only through a role change made
\* by a user who is at that moment an ADMIN of the same organization; an
\* application starts as PENDING; only an ADMIN removes a non-pending
\* member.
C30_RolesGrantedByAdminsOnly ==
  [][\A u \in MemberUsers, o \in Orgs :
       LET before == RoleOf(userOrganizations, u, o)
           after == RoleOf(userOrganizations', u, o)
       IN /\ (after \in {"ADMIN", "LEAD"} /\ after # before) =>
               /\ req'.op = "updateMember"
               /\ before # NoMembership
               /\ CallerIsAdminOf(o)
          /\ (before = NoMembership /\ after # NoMembership) =>
               /\ req'.op = "apply"
               /\ req'.user = u
               /\ after = "PENDING"
          /\ (before \notin {NoMembership, "PENDING"} /\ after = NoMembership) =>
               /\ req'.op = "deleteMember"
               /\ CallerIsAdminOf(o)]_vars

C30_Witness ==
  /\ req.op = "updateMember"
  /\ last.status = 200
  /\ reviews = 2
  /\ req.role = "LEAD"
  /\ RoleOf(userOrganizations, req.user, req.org) = "ADMIN"
  /\ RoleOf(userOrganizations, req.target, req.org) = "LEAD"
  /\ UserOrganization(req.target, req.org, "LEAD") \notin InitialMemberships

====
